---- MODULE Spec2Model ----
(***************************************************************************)
(* A model of the tiktok-shop-scraper pipelines:                           *)
(*   - the page-parse pipeline (runner.py, extractors/tiktok_parser.py,    *)
(*     extractors/utils_format.py), and                                    *)
(*   - the catalog-search pipeline (services/scraper.py, utils/parser.py). *)
(*                                                                         *)
(* Representation.  A Python str is a sequence of one-character strings,   *)
(* so that strip(), "in" and the float/int parsers are computed and not    *)
(* assumed.  Python's None in a str-or-None field is the value None below. *)
(* A script text is a sequence of JSON tokens (see Tokens).  Indices are   *)
(* 1-based; 0 plays the part of the -1 that str.find/rfind return.         *)
(***************************************************************************)
EXTENDS Integers, Sequences, FiniteSets, TLC

VARIABLES
    \* _extract_json_from_script, run one loop iteration at a time
    jtext, jstart, jpc, jvalue, jtried,
    \* _parse_listing_page, run one script block / one strategy at a time
    doc, lpc, si, products, result, selEvaluated, skipped,
    \* _looks_like_product_page on one document
    cdoc, label,
    \* runner.main: the loop over the URL list
    urls, ui, all_products, rpc, fetches, exported,
    \* map_product on one raw record
    raw, mregion, mpc, mapped,
    \* services/scraper.py: TikTokShopScraper.search
    cfg, req, spc, sidx, attempt, items, out, attemptLog, usedMock,
    \* _apply_sort on one list
    sortIn, sortMode, sortOut, sortPc,
    \* _mock_products: generator instances consumed one record at a time,
    \* and the number of draws made from the global random state
    genArgs, genPos, genOut, globalDraws,
    \* validate_input on one payload
    payload, vpc, vresult

jsonVars == <<jtext, jstart, jpc, jvalue, jtried>>
listVars == <<doc, lpc, si, products, result, selEvaluated, skipped>>
classVars == <<cdoc, label>>
runVars == <<urls, ui, all_products, rpc, fetches, exported>>
mapVars == <<raw, mregion, mpc, mapped>>
searchVars == <<cfg, req, spc, sidx, attempt, items, out, attemptLog, usedMock>>
sortVars == <<sortIn, sortMode, sortOut, sortPc>>
genVars == <<genArgs, genPos, genOut, globalDraws>>
validVars == <<payload, vpc, vresult>>
vars == <<jsonVars, listVars, classVars, runVars, mapVars, searchVars, sortVars, genVars, validVars>>

\* what the actions of one process leave alone
jsonRest == <<listVars, classVars, runVars, mapVars, searchVars, sortVars, genVars, validVars>>
listRest == <<jsonVars, classVars, runVars, mapVars, searchVars, sortVars, genVars, validVars>>
classRest == <<jsonVars, listVars, runVars, mapVars, searchVars, sortVars, genVars, validVars>>
runRest == <<jsonVars, listVars, classVars, mapVars, searchVars, sortVars, genVars, validVars>>
mapRest == <<jsonVars, listVars, classVars, runVars, searchVars, sortVars, genVars, validVars>>
searchRest == <<jsonVars, listVars, classVars, runVars, mapVars, sortVars, genVars, validVars>>
sortRest == <<jsonVars, listVars, classVars, runVars, mapVars, searchVars, genVars, validVars>>
genRest == <<jsonVars, listVars, classVars, runVars, mapVars, searchVars, sortVars, validVars>>
validRest == <<jsonVars, listVars, classVars, runVars, mapVars, searchVars, sortVars, genVars>>

(***************************************************************************)
(* Bounds of the model.                                                    *)
(***************************************************************************)
MaxJsonLen == 5
MaxBlocks == 3
MaxTitleWords == 3
MaxUrls == 3
MaxKeys == 2
MaxLimit == 2
MaxStartUrls == 2
MaxSortLen == 3
MaxGlobalDraws == 2

(***************************************************************************)
(* Python strings and None.                                                *)
(***************************************************************************)
None == <<"None">>
EmptyStr == <<>>

IsWs(c) == c = " "

RECURSIVE LStrip(_)
LStrip(s) == IF s /= <<>> /\ IsWs(Head(s)) THEN LStrip(Tail(s)) ELSE s

RECURSIVE RStrip(_)
RStrip(s) ==
    IF s /= <<>> /\ IsWs(s[Len(s)]) THEN RStrip(SubSeq(s, 1, Len(s) - 1)) ELSE s

\* str.strip()
Strip(s) == RStrip(LStrip(s))

\* c in s, for a one-character c
Contains(s, c) == \E i \in 1..Len(s) : s[i] = c

(***************************************************************************)
(* JSON tokens.  A script text is a sequence of tokens [t, k, s]:          *)
(*   t = "{" or "[" opens an object or an array, "}" or "]" closes it;     *)
(*   t = "str", "num", "null" is a scalar with text s (for a number its    *)
(*       str() rendering);                                                 *)
(*   t = "x" is text that is no JSON (an assignment prefix, a ";", ...).   *)
(* k is the member key in front of a value ("" for none).  Separators are  *)
(* left out: neighbouring values are taken to be comma-separated.          *)
(***************************************************************************)
LB(k) == [t |-> "{", k |-> k, s |-> <<>>]
RB == [t |-> "}", k |-> "", s |-> <<>>]
LSB(k) == [t |-> "[", k |-> k, s |-> <<>>]
RSB == [t |-> "]", k |-> "", s |-> <<>>]
StrTok(k, s) == [t |-> "str", k |-> k, s |-> s]
NumTok(k, s) == [t |-> "num", k |-> k, s |-> s]
NullTok(k) == [t |-> "null", k |-> k, s |-> <<>>]
Noise == [t |-> "x", k |-> "", s |-> <<>>]

(***************************************************************************)
(* json.loads on a token sequence: a recursive-descent parse.  A parsed    *)
(* value is [t, k, s, c]: t in {"obj","list","str","num","null"}, k its    *)
(* key in the enclosing object, c the members (obj) or elements (list) in  *)
(* document order.  A member of an object needs a key and an element of an *)
(* array has none; the key in front of the outermost value lies outside    *)
(* the parsed span and is dropped.                                         *)
(***************************************************************************)
ParseFail == [ok |-> FALSE, val |-> <<>>, next |-> 0]

RECURSIVE ParseValue(_, _, _)
RECURSIVE ParseItems(_, _, _, _)

\* the value starting at text[i]; inObj tells whether a key is required
ParseValue(text, i, inObj) ==
    IF i > Len(text) THEN ParseFail
    ELSE LET tok == text[i] IN
         IF inObj = "obj" /\ tok.k = "" THEN ParseFail
         ELSE IF inObj = "list" /\ tok.k /= "" THEN ParseFail
         ELSE IF tok.t \in {"str", "num", "null"}
              THEN [ok |-> TRUE,
                    val |-> [t |-> tok.t, k |-> tok.k, s |-> tok.s, c |-> <<>>],
                    next |-> i + 1]
         ELSE IF tok.t \in {"{", "["}
              THEN LET kind == IF tok.t = "{" THEN "obj" ELSE "list"
                       r == ParseItems(text, i + 1, kind, <<>>)
                   IN  IF r.ok
                       THEN [ok |-> TRUE,
                             val |-> [t |-> kind,
                                      k |-> IF inObj = "top" THEN "" ELSE tok.k,
                                      s |-> <<>>, c |-> r.val],
                             next |-> r.next]
                       ELSE ParseFail
         ELSE ParseFail

\* the members of an object (or elements of an array) up to its closer
ParseItems(text, i, kind, acc) ==
    IF i > Len(text) THEN ParseFail
    ELSE IF text[i].t = (IF kind = "obj" THEN "}" ELSE "]")
         THEN [ok |-> TRUE, val |-> acc, next |-> i + 1]
    ELSE LET r == ParseValue(text, i, kind) IN
         IF r.ok THEN ParseItems(text, r.next, kind, Append(acc, r.val))
         ELSE ParseFail

\* json.loads(candidate): the whole candidate must be one value
JsonLoads(candidate) ==
    LET r == ParseValue(candidate, 1, "top") IN
    IF r.ok /\ r.next = Len(candidate) + 1
    THEN [ok |-> TRUE, val |-> r.val]
    ELSE [ok |-> FALSE, val |-> <<>>]

(***************************************************************************)
(* _extract_json_from_script.                                              *)
(***************************************************************************)
\* text.find("{", from): the least position >= from holding "{", else 0
FindOpen(text, from) ==
    LET S == {i \in from..Len(text) : text[i].t = "{"} IN
    IF S = {} THEN 0 ELSE CHOOSE i \in S : \A j \in S : i <= j

\* text.rfind("}", lo, hi): the greatest position in lo..hi-1 holding "}"
RFindClose(text, lo, hi) ==
    LET S == {i \in lo..(hi - 1) : text[i].t = "}"} IN
    IF S = {} THEN 0 ELSE CHOOSE i \in S : \A j \in S : i >= j

\* One iteration of the while loop entered with start /= 0.
\* out = "return" (value), "break", or "continue" (with the next start).
JsonIter(text, start) ==
    LET end == RFindClose(text, 1, Len(text) + 1) IN
    IF end = 0 \/ end <= start
    THEN [out |-> "break", val |-> <<>>, start |-> start, span |-> <<>>]
    ELSE LET r == JsonLoads(SubSeq(text, start, end)) IN
         IF r.ok
         THEN [out |-> "return", val |-> r.val, start |-> start,
               span |-> <<start, end>>]
         ELSE \* except: end = text.rfind("}", start, end); the new end is
              \* used for the break test only, the next iteration recomputes it
              IF RFindClose(text, start, end) = 0
              THEN [out |-> "break", val |-> <<>>, start |-> start,
                    span |-> <<start, end>>]
              ELSE [out |-> "continue", val |-> <<>>,
                    start |-> FindOpen(text, start + 1), span |-> <<start, end>>]

\* the whole function: [ok |-> TRUE, val] or the ValueError [ok |-> FALSE]
RECURSIVE ExtractFrom(_, _)
ExtractFrom(text, start) ==
    IF start = 0 THEN [ok |-> FALSE, val |-> <<>>]
    ELSE LET it == JsonIter(text, start) IN
         IF it.out = "return" THEN [ok |-> TRUE, val |-> it.val]
         ELSE IF it.out = "break" THEN [ok |-> FALSE, val |-> <<>>]
         ELSE ExtractFrom(text, it.start)

ExtractJson(text) == ExtractFrom(text, FindOpen(text, 1))

(***************************************************************************)
(* Parsed JSON values as Python objects.                                   *)
(***************************************************************************)
NullVal == [t |-> "null", k |-> "", s |-> <<>>, c |-> <<>>]
StrVal(s) == [t |-> "str", k |-> "", s |-> s, c |-> <<>>]

HasKey(node, key) == \E i \in 1..Len(node.c) : node.c[i].k = key

\* dict.get(key, default): json.loads keeps the last of repeated keys
GetOr(node, key, default) ==
    IF HasKey(node, key)
    THEN LET i == CHOOSE i \in 1..Len(node.c) :
                     /\ node.c[i].k = key
                     /\ \A j \in (i + 1)..Len(node.c) : node.c[j].k /= key
         IN  node.c[i]
    ELSE default

\* dict.get(key)
Get(node, key) == GetOr(node, key, NullVal)

\* bool(v)
Truthy(v) ==
    CASE v.t = "null" -> FALSE
      [] v.t = "str" -> v.s /= <<>>
      [] v.t = "num" -> v.s /= <<"0">>
      [] OTHER -> v.c /= <<>>

\* a or b
PyOr(a, b) == IF Truthy(a) THEN a ELSE b

\* str(v); the rendering of a container is abridged to its brackets
PyStr(v) ==
    CASE v.t = "null" -> <<"N", "o", "n", "e">>
      [] v.t \in {"str", "num"} -> v.s
      [] v.t = "obj" -> <<"{", "}">>
      [] OTHER -> <<"[", "]">>

\* a value stored in a record field without conversion: a str as its
\* text, None as None, anything else by its rendering
AsField(v) == IF v.t = "null" THEN None ELSE PyStr(v)

\* k.lower() on the keys the model uses
Lower(k) ==
    CASE k = "Title" -> "title"
      [] k = "Price" -> "price"
      [] k = "Product" -> "product"
      [] OTHER -> k

(***************************************************************************)
(* extractors/utils_format.py                                              *)
(***************************************************************************)
\* clean_price / clean_score / clean_sold on a str-or-None
clean_price(value) ==
    IF value = None THEN None
    ELSE IF Strip(value) = <<>> THEN None ELSE Strip(value)

clean_score(value) == clean_price(value)

clean_sold(value) == clean_price(value)

\* normalize_product_link on a str
normalize_product_link(url) == IF url = <<>> THEN url ELSE Strip(url)

(***************************************************************************)
(* extractors/tiktok_parser.py: listing strategy A, the JSON walk.         *)
(* A Product is [title, origin_price, sale_price, score, sold,             *)
(* product_link, img]; the field src is not in the code: it records which  *)
(* strategy built the record ("A" JSON walk, "B" card scan, "P" product    *)
(* page).                                                                  *)
(***************************************************************************)
Product(title, origin, sale, score, sold, link, img, src) ==
    [title |-> title, origin_price |-> origin, sale_price |-> sale,
     score |-> score, sold |-> sold, product_link |-> link, img |-> img,
     src |-> src]

NoProduct == Product(<<>>, None, None, None, None, <<>>, None, "none")

_looks_like_product_dict(node) ==
    LET keys == {Lower(node.c[i].k) : i \in 1..Len(node.c)} IN
    \/ {"title", "price"} \subseteq keys
    \/ /\ "name" \in keys
       /\ "image" \in keys
       /\ ("price" \in keys \/ "offers" \in keys)

\* [raised, p]: raised when the code raises IndexError (image is an empty
\* list) or AttributeError (url is truthy and no str, so it has no strip)
_product_from_dict(node, base_url) ==
    LET title == PyOr(Get(node, "title"), GetOr(node, "name", StrVal(<<>>)))
        imageV == Get(node, "image")
        imageRaises == imageV.t = "list" /\ imageV.c = <<>>
        image == IF imageV.t = "list" /\ imageV.c /= <<>>
                 THEN AsField(imageV.c[1])
                 ELSE IF imageV.t = "str" THEN imageV.s ELSE None
        priceV == Get(node, "price")
        offersV == Get(node, "offers")
        raw_price == IF priceV.t \in {"str", "num"} THEN PyStr(priceV)
                     ELSE IF offersV.t = "obj" THEN PyStr(Get(offersV, "price"))
                     ELSE None
        score == PyStr(PyOr(Get(node, "ratingValue"),
                            GetOr(node, "rating", StrVal(<<>>))))
        sold == PyStr(PyOr(PyOr(Get(node, "sold"), Get(node, "soldCount")),
                           StrVal(<<>>)))
        linkV == PyOr(Get(node, "url"), StrVal(base_url))
        linkRaises == linkV.t /= "str"
    IN  IF imageRaises \/ linkRaises
        THEN [raised |-> TRUE, p |-> NoProduct]
        ELSE [raised |-> FALSE,
              p |-> Product(AsField(title), clean_price(raw_price),
                            clean_price(raw_price), clean_score(score),
                            clean_sold(sold), normalize_product_link(linkV.s),
                            image, "A")]

\* _products_from_json_blob: the pre-order walk; [raised, prods]
RECURSIVE Walk(_, _)
RECURSIVE WalkAll(_, _, _)

Walk(node, base_url) ==
    IF node.t = "obj"
    THEN IF _looks_like_product_dict(node)
         THEN LET r == _product_from_dict(node, base_url) IN
              IF r.raised THEN [raised |-> TRUE, prods |-> <<>>]
              ELSE WalkAll(node.c, base_url, <<r.p>>)
         ELSE WalkAll(node.c, base_url, <<>>)
    ELSE IF node.t = "list" THEN WalkAll(node.c, base_url, <<>>)
    ELSE [raised |-> FALSE, prods |-> <<>>]

WalkAll(children, base_url, acc) ==
    IF children = <<>> THEN [raised |-> FALSE, prods |-> acc]
    ELSE LET r == Walk(Head(children), base_url) IN
         IF r.raised THEN r
         ELSE WalkAll(Tail(children), base_url, acc \o r.prods)

_products_from_json_blob(data, base_url) == Walk(data, base_url)

\* '"product"' in script_text.lower() and '"price"' in script_text.lower():
\* a quoted word of the text is a member key
Qualifies(text) ==
    /\ \E i \in 1..Len(text) : Lower(text[i].k) = "product"
    /\ \E i \in 1..Len(text) : Lower(text[i].k) = "price"

(***************************************************************************)
(* Listing strategy B, the DOM card scan.  A DOM element of the document   *)
(* is [tag, href, e2e, spans, heading, img, inner]: its tag ("a" or        *)
(* "div"), its own href, whether it carries data-e2e='search-card', the    *)
(* texts of its own span children, the text of its first h3 (else h2) or   *)
(* None, the src of its first img or None, and its first descendant        *)
(* anchor with an href, inner = [present, href, spans].                    *)
(***************************************************************************)
NoAnchor == [present |-> FALSE, href |-> <<>>, spans |-> <<>>]
Anchor(href, spans) == [present |-> TRUE, href |-> href, spans |-> spans]

Element(tag, href, e2e, spans, heading, img, inner) ==
    [tag |-> tag, href |-> href, e2e |-> e2e, spans |-> spans,
     heading |-> heading, img |-> img, inner |-> inner]

\* href*='/product/'
HrefIsProduct(href) == Contains(href, "/product/")

\* a nested anchor seen as an element of its own
InnerAsElement(a) == Element("a", a.href, FALSE, a.spans, None, None, NoAnchor)

\* soup.select("a[href*='/product/']") in document order
RECURSIVE SelectAnchors(_)
SelectAnchors(elements) ==
    IF elements = <<>> THEN <<>>
    ELSE LET e == Head(elements)
             own == IF e.tag = "a" /\ HrefIsProduct(e.href) THEN <<e>> ELSE <<>>
             nested == IF e.inner.present /\ HrefIsProduct(e.inner.href)
                       THEN <<InnerAsElement(e.inner)>> ELSE <<>>
         IN  own \o nested \o SelectAnchors(Tail(elements))

\* soup.select("div[data-e2e='search-card']")
RECURSIVE SelectSearchCards(_)
SelectSearchCards(elements) ==
    IF elements = <<>> THEN <<>>
    ELSE LET e == Head(elements) IN
         (IF e.tag = "div" /\ e.e2e THEN <<e>> ELSE <<>>)
             \o SelectSearchCards(Tail(elements))

\* the span descendants of a card, its own first
CardSpans(card) == card.spans \o card.inner.spans

\* [some, p]: some = FALSE is the None returned for a card without title
\* and price
_product_from_card(card, base_url) ==
    LET spans == CardSpans(card)
        title == IF spans /= <<>> THEN Strip(spans[1])
                 ELSE IF card.heading /= None THEN Strip(card.heading)
                 ELSE <<>>
        priced == {i \in 1..Len(spans) : Contains(spans[i], "$")}
        price == IF priced = {} THEN <<>>
                 ELSE Strip(spans[CHOOSE i \in priced : \A j \in priced : i <= j])
        link == IF card.inner.present THEN card.inner.href ELSE base_url
    IN  IF title = <<>> /\ price = <<>>
        THEN [some |-> FALSE, p |-> NoProduct]
        ELSE [some |-> TRUE,
              p |-> Product(title, None, clean_price(price), clean_score(<<>>),
                            clean_sold(<<>>), normalize_product_link(link),
                            card.img, "B")]

RECURSIVE CardProducts(_, _)
CardProducts(cards, base_url) ==
    IF cards = <<>> THEN <<>>
    ELSE LET r == _product_from_card(Head(cards), base_url) IN
         (IF r.some THEN <<r.p>> ELSE <<>>) \o CardProducts(Tail(cards), base_url)

\* the fallback block: both selectors, in the order of card_selectors
CardStrategy(elements, base_url) ==
    CardProducts(SelectAnchors(elements), base_url)
        \o CardProducts(SelectSearchCards(elements), base_url)

(***************************************************************************)
(* De-duplication by product_link: the dict keeps the first record of each *)
(* key, and list(unique.values()) is in insertion order.                   *)
(***************************************************************************)
\* a de-duplication in which the last record of a key wins
RECURSIVE DedupeFromLastWins(_, _)
DedupeFromLastWins(ps, unique) ==
    IF ps = <<>> THEN unique
    ELSE IF \E i \in 1..Len(unique) : unique[i].product_link = Head(ps).product_link
         THEN DedupeFromLastWins(Tail(ps),
                  [i \in 1..Len(unique) |->
                      IF unique[i].product_link = Head(ps).product_link
                      THEN Head(ps) ELSE unique[i]])
         ELSE DedupeFromLastWins(Tail(ps), Append(unique, Head(ps)))

RECURSIVE DedupeFrom(_, _)
DedupeFrom(ps, unique) ==
    IF ps = <<>> THEN unique
    ELSE IF \E i \in 1..Len(unique) : unique[i].product_link = Head(ps).product_link
         THEN DedupeFrom(Tail(ps), unique)
         ELSE DedupeFrom(Tail(ps), Append(unique, Head(ps)))

Dedupe(ps) == DedupeFrom(ps, <<>>)

(***************************************************************************)
(* Documents.  A PageDocument is the parsed page: the fields the           *)
(* classifier and the strategies read.                                     *)
(*   ogType, ogTitle, h1, origMeta, saleMeta, ratingMeta, ogImage: the     *)
(*     content of the meta tag / text of the element, or None when absent; *)
(*   title: the text of <title> as a sequence of words, or None;           *)
(*   itempropPrice: whether a meta[itemprop='price'] exists;               *)
(*   texts: the text nodes of the body; scripts: the script texts;         *)
(*   elements: the DOM elements the card selectors can match.              *)
(***************************************************************************)
Doc(url, ogType, title, ogTitle, h1, origMeta, saleMeta, itempropPrice, ratingMeta, ogImage, texts, scripts, elements) ==
    [url |-> url, ogType |-> ogType, title |-> title, ogTitle |-> ogTitle,
     h1 |-> h1, origMeta |-> origMeta, saleMeta |-> saleMeta,
     itempropPrice |-> itempropPrice, ratingMeta |-> ratingMeta,
     ogImage |-> ogImage, texts |-> texts, scripts |-> scripts,
     elements |-> elements]

PageUrl == <<"https://shop/list">>

ListingDoc(scripts, elements) ==
    Doc(PageUrl, None, None, None, None, None, None, FALSE, None, None, <<>>,
        scripts, elements)

NoDoc == ListingDoc(<<>>, <<>>)

SeqsUpTo(S, n) == UNION {[1..k -> S] : k \in 0..n}

\* the script texts the listing model draws from
ProductNode(members) == <<LB("product")>> \o members \o <<RB>>
TitleW == StrTok("title", <<"W">>)
Price9 == StrTok("price", <<"$", "9">>)

ScriptEndToEnd ==
    <<LB(""), LSB("product"), LB(""), TitleW, Price9, RB, RSB, RB>>
ScriptUrlA ==
    <<LB("")>> \o ProductNode(<<TitleW, Price9, StrTok("url", <<" ", "a">>)>>)
        \o <<RB>>
ScriptUrlA2 ==
    <<Noise, LB("")>>
        \o ProductNode(<<StrTok("name", <<"N">>), StrTok("image", <<"i">>),
                         NumTok("price", <<"5">>), StrTok("url", <<"a", " ">>)>>)
        \o <<RB, Noise>>
ScriptBlankUrl ==
    <<LB("")>> \o ProductNode(<<StrTok("Title", <<"W">>),
                                StrTok("Price", <<"1">>),
                                StrTok("url", <<" ", " ">>)>>) \o <<RB>>
ScriptMalformed == <<LB(""), LB("product"), Price9, Noise>>
ScriptBraceSuffix ==
    <<LB("")>> \o ProductNode(<<TitleW, Price9, StrTok("url", <<"b">>)>>)
        \o <<RB, Noise, RB>>
ScriptEmptyImage ==
    <<LB("")>> \o ProductNode(<<TitleW, Price9, LSB("image"), RSB>>) \o <<RB>>
ScriptNoProduct == <<LB(""), TitleW, RB>>
ScriptEmpty == <<>>
ScriptTwo ==
    <<LB(""), LSB("product"),
      LB(""), TitleW, Price9, StrTok("url", <<"a">>), RB,
      LB(""), TitleW, LB("offers"), NumTok("price", <<"7">>), RB,
              StrTok("name", <<"N">>), StrTok("image", <<"i">>),
              StrTok("url", <<"b">>), RB,
      RSB, NumTok("price", <<"0">>), RB>>

ScriptMenu ==
    {ScriptEndToEnd, ScriptUrlA, ScriptUrlA2, ScriptBlankUrl, ScriptMalformed,
     ScriptBraceSuffix, ScriptEmptyImage, ScriptNoProduct, ScriptEmpty,
     ScriptTwo}

\* the DOM elements the listing model draws from
ElemAnchor1 ==
    Element("a", <<"/product/", "1">>, FALSE, <<<<"T", " ">>, <<"$", "5">>>>,
            None, <<"img1">>, NoAnchor)
ElemAnchor2 ==
    Element("a", <<" ", "/product/", "2">>, FALSE, <<<<"$", "6">>>>, None, None,
            NoAnchor)
ElemAnchorBare ==
    Element("a", <<"/product/", "3">>, FALSE, <<>>, None, None, NoAnchor)
ElemSearchCard ==
    Element("div", <<>>, TRUE, <<>>, <<"H">>, None,
            Anchor(<<"/product/", "4", " ">>, <<<<"S">>>>))
ElemSearchCardNoHref ==
    Element("div", <<>>, TRUE, <<<<"T">>>>, None, None, Anchor(<<>>, <<>>))

ElementMenu ==
    {ElemAnchor1, ElemAnchor2, ElemAnchorBare, ElemSearchCard,
     ElemSearchCardNoHref}

\* listing documents with at most MaxBlocks script blocks and elements
ListingDocs ==
    UNION {{ListingDoc(ss, es) :
                ss \in [1..k -> ScriptMenu],
                es \in SeqsUpTo(ElementMenu, MaxBlocks - k)} :
           k \in 0..MaxBlocks}

(***************************************************************************)
(* _extract_json_from_script as a process: one action per loop iteration.  *)
(* jtried lists the spans handed to json.loads, in order.                  *)
(***************************************************************************)
JsonAlphabet == {LB("k"), RB, StrTok("k", <<"v">>), Noise}

JsonIdle ==
    /\ jtext = <<>>
    /\ jstart = 0
    /\ jpc = "idle"
    /\ jvalue = <<>>
    /\ jtried = <<>>

ListIdle ==
    /\ doc = NoDoc
    /\ lpc = "idle"
    /\ si = 0
    /\ products = <<>>
    /\ result = <<>>
    /\ selEvaluated = <<>>
    /\ skipped = {}

ClassIdle ==
    /\ cdoc = NoDoc
    /\ label = "idle"

RunIdle ==
    /\ urls = <<>>
    /\ ui = 0
    /\ all_products = <<>>
    /\ rpc = "idle"
    /\ fetches = <<>>
    /\ exported = <<>>

MapIdle ==
    /\ raw = <<>>
    /\ mregion = <<"None">>
    /\ mpc = "idle"
    /\ mapped = <<>>

SortIdle ==
    /\ sortIn = <<>>
    /\ sortMode = ""
    /\ sortOut = <<>>
    /\ sortPc = "idle"

GenIdle ==
    /\ genArgs = <<>>
    /\ genPos = <<>>
    /\ genOut = <<>>
    /\ globalDraws = 0

ValidIdle ==
    /\ payload = <<>>
    /\ vpc = "idle"
    /\ vresult = <<>>

SearchIdle ==
    /\ cfg = <<>>
    /\ req = <<>>
    /\ spc = "idle"
    /\ sidx = 0
    /\ attempt = 0
    /\ items = <<>>
    /\ out = <<>>
    /\ attemptLog = <<>>
    /\ usedMock = FALSE

JsonInit ==
    /\ jtext \in SeqsUpTo(JsonAlphabet, MaxJsonLen)
    /\ jstart = FindOpen(jtext, 1)
    /\ jpc = "loop"
    /\ jvalue = <<>>
    /\ jtried = <<>>
    /\ ListIdle
    /\ ClassIdle
    /\ RunIdle
    /\ MapIdle
    /\ SearchIdle
    /\ SortIdle
    /\ GenIdle
    /\ ValidIdle

\* the loop condition fails: fall through to the raise
JsonExhausted ==
    /\ jpc = "loop"
    /\ jstart = 0
    /\ jpc' = "raised"
    /\ UNCHANGED <<jtext, jstart, jvalue, jtried, jsonRest>>

\* an iteration that returns the parsed candidate
JsonReturn ==
    /\ jpc = "loop"
    /\ jstart /= 0
    /\ LET it == JsonIter(jtext, jstart) IN
       /\ it.out = "return"
       /\ jvalue' = it.val
       /\ jtried' = Append(jtried, it.span)
    /\ jpc' = "returned"
    /\ UNCHANGED <<jtext, jstart, jsonRest>>

\* an iteration that leaves the loop by break: the raise follows
JsonBreak ==
    /\ jpc = "loop"
    /\ jstart /= 0
    /\ LET it == JsonIter(jtext, jstart) IN
       /\ it.out = "break"
       /\ jtried' = IF it.span = <<>> THEN jtried ELSE Append(jtried, it.span)
    /\ jpc' = "raised"
    /\ UNCHANGED <<jtext, jstart, jvalue, jsonRest>>

\* an iteration that fails to parse and does not move start
JsonContinueStuck ==
    /\ jpc = "loop"
    /\ jstart /= 0
    /\ JsonIter(jtext, jstart).out = "continue"
    /\ UNCHANGED <<jtext, jstart, jpc, jvalue, jtried, jsonRest>>

\* an iteration whose candidate fails to parse and that goes on
JsonContinue ==
    /\ jpc = "loop"
    /\ jstart /= 0
    /\ LET it == JsonIter(jtext, jstart) IN
       /\ it.out = "continue"
       /\ jstart' = it.start
       /\ jtried' = Append(jtried, it.span)
    /\ UNCHANGED <<jtext, jpc, jvalue, jsonRest>>

JsonNext == JsonExhausted \/ JsonReturn \/ JsonBreak \/ JsonContinue

SpecJson == JsonInit /\ [][JsonNext]_vars

\* the function runs on: a loop iteration that can be made is made
SpecJsonFair == SpecJson /\ WF_vars(JsonNext)

(***************************************************************************)
(* _parse_listing_page as a process: one action per script block, then    *)
(* the fallback, then the de-duplication.                                  *)
(*   si: the next script block; products: the list being built;            *)
(*   selEvaluated: the card selectors evaluated so far (not in the code);  *)
(*   skipped: the blocks left by the except ValueError (not in the code);  *)
(*   lpc: "scripts", "fallback", "dedupe", "done", or "raised" when an     *)
(*   exception left the function.                                          *)
(***************************************************************************)
card_selectors == <<"a[href*='/product/']", "div[data-e2e='search-card']">>

ListingInit ==
    /\ doc \in ListingDocs
    /\ lpc = "scripts"
    /\ si = 1
    /\ products = <<>>
    /\ result = <<>>
    /\ selEvaluated = <<>>
    /\ skipped = {}
    /\ JsonIdle
    /\ ClassIdle
    /\ RunIdle
    /\ MapIdle
    /\ SearchIdle
    /\ SortIdle
    /\ GenIdle
    /\ ValidIdle

\* script.string is empty, or the text lacks "product" or "price"
ScriptPass ==
    /\ lpc = "scripts"
    /\ si <= Len(doc.scripts)
    /\ doc.scripts[si] = <<>> \/ ~Qualifies(doc.scripts[si])
    /\ si' = si + 1
    /\ UNCHANGED <<doc, lpc, products, result, selEvaluated, skipped, listRest>>

\* _extract_json_from_script raises ValueError: continue
ScriptSkip ==
    /\ lpc = "scripts"
    /\ si <= Len(doc.scripts)
    /\ doc.scripts[si] /= <<>> /\ Qualifies(doc.scripts[si])
    /\ ~ExtractJson(doc.scripts[si]).ok
    /\ si' = si + 1
    /\ skipped' = skipped \cup {si}
    /\ UNCHANGED <<doc, lpc, products, result, selEvaluated, listRest>>

\* products.extend(self._products_from_json_blob(data, url))
ScriptExtend ==
    /\ lpc = "scripts"
    /\ si <= Len(doc.scripts)
    /\ doc.scripts[si] /= <<>> /\ Qualifies(doc.scripts[si])
    /\ LET data == ExtractJson(doc.scripts[si]) IN
       /\ data.ok
       /\ LET r == _products_from_json_blob(data.val, doc.url) IN
          /\ ~r.raised
          /\ products' = products \o r.prods
    /\ si' = si + 1
    /\ UNCHANGED <<doc, lpc, result, selEvaluated, skipped, listRest>>

\* _products_from_json_blob raises: nothing in the function catches it
ScriptRaise ==
    /\ lpc = "scripts"
    /\ si <= Len(doc.scripts)
    /\ doc.scripts[si] /= <<>> /\ Qualifies(doc.scripts[si])
    /\ LET data == ExtractJson(doc.scripts[si]) IN
       /\ data.ok
       /\ _products_from_json_blob(data.val, doc.url).raised
    /\ lpc' = "raised"
    /\ UNCHANGED <<doc, si, products, result, selEvaluated, skipped, listRest>>

\* the for loop over the scripts ends
ScriptsEnd ==
    /\ lpc = "scripts"
    /\ si > Len(doc.scripts)
    /\ lpc' = "fallback"
    /\ UNCHANGED <<doc, si, products, result, selEvaluated, skipped, listRest>>

\* a fallback that runs whatever strategy A found
FallbackAlways ==
    /\ lpc = "fallback"
    /\ products' = products \o CardStrategy(doc.elements, doc.url)
    /\ selEvaluated' = card_selectors
    /\ lpc' = "dedupe"
    /\ UNCHANGED <<doc, si, result, skipped, listRest>>

\* if not products: the card selectors, in order
Fallback ==
    /\ lpc = "fallback"
    /\ IF products = <<>>
       THEN /\ products' = CardStrategy(doc.elements, doc.url)
            /\ selEvaluated' = card_selectors
       ELSE UNCHANGED <<products, selEvaluated>>
    /\ lpc' = "dedupe"
    /\ UNCHANGED <<doc, si, result, skipped, listRest>>

\* the de-duplication and the return
DedupeStep ==
    /\ lpc = "dedupe"
    /\ result' = Dedupe(products)
    /\ lpc' = "done"
    /\ UNCHANGED <<doc, si, products, selEvaluated, skipped, listRest>>

ListingNext ==
    \/ ScriptPass
    \/ ScriptSkip
    \/ ScriptExtend
    \/ ScriptRaise
    \/ ScriptsEnd
    \/ Fallback
    \/ DedupeStep

SpecListing == ListingInit /\ [][ListingNext]_vars

(***************************************************************************)
(* Claims about _parse_listing_page (SpecListing).                         *)
(***************************************************************************)
FromStrategy(ps, src) == \A i \in 1..Len(ps) : ps[i].src = src

\* C1: strategy A (the JSON script walk) runs before strategy B (the card
\* scan) and B runs only if A produced no record: a card selector is
\* evaluated only after the last script block, and then no record of A
\* exists; whenever A yielded a record, no selector is evaluated and every
\* record of the list and of the result comes from A.
C1_StrategyPrecedence ==
    /\ selEvaluated /= <<>> =>
          /\ si > Len(doc.scripts)
          /\ lpc \in {"dedupe", "done"}
          /\ FromStrategy(products, "B")
          /\ FromStrategy(result, "B")
    /\ (\E i \in 1..Len(products) : products[i].src = "A") =>
          /\ selEvaluated = <<>>
          /\ FromStrategy(products, "A")
          /\ FromStrategy(result, "A")
    /\ lpc \in {"scripts", "fallback"} => selEvaluated = <<>>

\* a finished parse of a page with JSON records and matching cards
C1_Witness ==
    /\ lpc = "done"
    /\ result /= <<>>
    /\ FromStrategy(result, "A")
    /\ CardStrategy(doc.elements, doc.url) /= <<>>
    /\ selEvaluated = <<>>

\* the positions of products that hold the first record of their
\* whitespace-stripped product_link
FirstSeen(ps) ==
    {i \in 1..Len(ps) :
        \A j \in 1..(i - 1) :
            Strip(ps[j].product_link) /= Strip(ps[i].product_link)}

\* the n-th smallest member of a set of positions
NthOf(I, n) == CHOOSE i \in I : Cardinality({j \in I : j <= i}) = n

\* C2: the de-duplication returns exactly the subsequence of the extracted
\* records that keeps the first record of each whitespace-stripped
\* product_link, in extraction order; the links of the output are pairwise
\* distinct, the output is no longer than the input, and de-duplicating
\* the output again changes nothing.
C2_DedupeFirstSeen ==
    lpc = "done" =>
        /\ Len(result) = Cardinality(FirstSeen(products))
        /\ \A n \in 1..Len(result) :
              result[n] = products[NthOf(FirstSeen(products), n)]
        /\ \A m, n \in 1..Len(result) :
              m /= n => Strip(result[m].product_link)
                            /= Strip(result[n].product_link)
        /\ Len(result) <= Len(products)
        /\ Dedupe(result) = result

\* a finished parse in which a later duplicate was dropped and two
\* different links were kept
C2_Witness ==
    /\ lpc = "done"
    /\ Len(result) >= 2
    /\ Len(result) < Len(products)
    /\ \E i \in 1..Len(products) :
          i \notin FirstSeen(products) /\ products[i] /= products[1]

\* a script block whose embedded JSON cannot be extracted
Unextractable(text) == text /= <<>> /\ Qualifies(text) /\ ~ExtractJson(text).ok

\* a script block whose embedded JSON is extracted
Extractable(text) == text /= <<>> /\ Qualifies(text) /\ ExtractJson(text).ok

\* C7: on a page with several qualifying script blocks of which some
\* cannot be extracted, only those blocks are skipped: no exception leaves
\* _parse_listing_page, and every record of every other block, before and
\* after a malformed one, is in the result (under its product_link).
C7_MalformedBlockIsolated ==
    (/\ Cardinality({i \in 1..Len(doc.scripts) : Qualifies(doc.scripts[i])}) >= 2
     /\ \E i \in 1..Len(doc.scripts) : Unextractable(doc.scripts[i]))
    => /\ lpc /= "raised"
       /\ lpc = "done" =>
             \A i \in 1..Len(doc.scripts) :
                Extractable(doc.scripts[i]) =>
                   LET r == _products_from_json_blob(
                                ExtractJson(doc.scripts[i]).val, doc.url)
                   IN  \A n \in 1..Len(r.prods) :
                          \E m \in 1..Len(result) :
                             result[m].product_link = r.prods[n].product_link

\* C9 (page-parse pipeline): every record of the result has a non-empty
\* product_link; a node or card that would give an empty one is dropped.
C9_NonEmptyIdentity ==
    lpc = "done" => \A i \in 1..Len(result) : result[i].product_link /= <<>>

(***************************************************************************)
(* Claims about _extract_json_from_script (SpecJson).                      *)
(***************************************************************************)
\* the text is a well-formed JSON object in 1..n followed by a suffix that
\* is no JSON: it starts with text outside JSON and opens no object
ObjectThenSuffix(text, n) ==
    /\ 1 <= n /\ n < Len(text)
    /\ text[1].t = "{"
    /\ JsonLoads(SubSeq(text, 1, n)).ok
    /\ text[n + 1].t = "x"
    /\ \A i \in (n + 1)..Len(text) : text[i].t \in {"x", "}"}

\* C6: for a script text made of a well-formed JSON object followed by a
\* non-JSON suffix, also one that contains "}", the function returns that
\* object.
C6_ObjectBeforeSuffixReturned ==
    jpc \in {"returned", "raised"} =>
        \A n \in 1..Len(jtext) :
            ObjectThenSuffix(jtext, n) =>
                /\ jpc = "returned"
                /\ jvalue = JsonLoads(SubSeq(jtext, 1, n)).val

(***************************************************************************)
(* The page classifier, _looks_like_product_page.  The title is a sequence *)
(* of words joined by single spaces; lower() is taken word by word, the    *)
(* brand "tiktok shop" is two neighbouring words and "product" is found    *)
(* inside a word.                                                          *)
(***************************************************************************)
LowerWord(w) ==
    CASE w = "TikTok" -> "tiktok"
      [] w = "Shop" -> "shop"
      [] w = "Product" -> "product"
      [] w = "Sold" -> "sold"
      [] OTHER -> w

LowerText(ws) == [i \in 1..Len(ws) |-> LowerWord(ws[i])]

\* "tiktok shop" in text
HasBrand(ws) ==
    \E i \in 1..(Len(ws) - 1) : ws[i] = "tiktok" /\ ws[i + 1] = "shop"

\* "product" in text
HasProductWord(ws) == \E i \in 1..Len(ws) : ws[i] \in {"product", "products"}

\* soup.select("meta[itemprop='price'], meta[property='product:price:amount']")
HasPriceMeta(d) == d.itempropPrice \/ d.saleMeta /= None

\* a classifier that looks at the price meta tags before the title
LooksLikeProductPagePriceFirst(d) ==
    IF d.ogType /= None /\ d.ogType = <<"product">> THEN TRUE
    ELSE IF HasPriceMeta(d) THEN TRUE
    ELSE IF d.title /= None /\ HasBrand(LowerText(d.title))
         THEN HasProductWord(LowerText(d.title))
    ELSE FALSE

_looks_like_product_page(d) ==
    IF d.ogType /= None /\ d.ogType = <<"product">> THEN TRUE
    ELSE IF d.title /= None /\ HasBrand(LowerText(d.title))
         THEN HasProductWord(LowerText(d.title))
    ELSE HasPriceMeta(d)

TitleWords == {"TikTok", "Shop", "shop", "Product", "products", "Deals"}

ClassifyDocs ==
    {Doc(PageUrl, og, t, None, None, None, sale, ip, None, None, <<>>, <<>>, <<>>) :
        og \in {None, <<"product">>, <<"Product">>, <<"website">>},
        t \in {None} \cup SeqsUpTo(TitleWords, MaxTitleWords),
        sale \in {None, <<"9">>},
        ip \in BOOLEAN}

ClassifyInit ==
    /\ cdoc \in ClassifyDocs
    /\ label = "unset"
    /\ JsonIdle
    /\ ListIdle
    /\ RunIdle
    /\ MapIdle
    /\ SearchIdle
    /\ SortIdle
    /\ GenIdle
    /\ ValidIdle

\* the branch of scrape_url taken for the document
Classify ==
    /\ label = "unset"
    /\ label' = IF _looks_like_product_page(cdoc) THEN "ProductPage"
                ELSE "ListingPage"
    /\ UNCHANGED <<cdoc, classRest>>

ClassifyNext == Classify

SpecClassify == ClassifyInit /\ [][ClassifyNext]_vars

\* C8: the classifier is total and applies its rules in order, the first
\* match wins: (1) og:type equal to "product" gives ProductPage; (2) else a
\* title with the brand "tiktok shop" gives ProductPage if it also has
\* "product" and ListingPage if not, even when a price-amount meta tag is
\* present; (3) else a price-amount meta tag gives ProductPage; (4) else
\* ListingPage.
C8_ClassifierRules ==
    LET og == cdoc.ogType = <<"product">>
        brand == cdoc.title /= None /\ HasBrand(LowerText(cdoc.title))
        prod == cdoc.title /= None /\ HasProductWord(LowerText(cdoc.title))
        price == HasPriceMeta(cdoc)
    IN  /\ label = "unset" => ENABLED Classify
        /\ label /= "unset" =>
              /\ label \in {"ProductPage", "ListingPage"}
              /\ og => label = "ProductPage"
              /\ ~og /\ brand /\ prod => label = "ProductPage"
              /\ ~og /\ brand /\ ~prod => label = "ListingPage"
              /\ ~og /\ ~brand /\ price => label = "ProductPage"
              /\ ~og /\ ~brand /\ ~price => label = "ListingPage"

\* a branded title without "product" on a page with a price meta tag
C8_Witness ==
    /\ label = "ListingPage"
    /\ cdoc.title /= None
    /\ HasBrand(LowerText(cdoc.title))
    /\ cdoc.title /= LowerText(cdoc.title)
    /\ HasPriceMeta(cdoc)

(***************************************************************************)
(* The single-product strategy, _parse_product_page.  A text node is a     *)
(* sequence of characters and words.                                       *)
(***************************************************************************)
IsDigit(c) == c \in {"0", "1", "2", "3", "4", "5", "6", "7", "8", "9"}

\* the first text node among those at the positions S, stripped, or None
FirstText(texts, S) ==
    IF S = {} THEN None
    ELSE Strip(texts[CHOOSE i \in S : \A j \in S : i <= j])

_extract_title(d) ==
    IF d.ogTitle /= None /\ d.ogTitle /= <<>> THEN Strip(d.ogTitle)
    ELSE IF d.h1 /= None /\ Strip(d.h1) /= <<>> THEN Strip(d.h1)
    ELSE IF d.title /= None /\ d.title /= <<>> THEN Strip(d.title)
    ELSE None

\* <<origin_price, sale_price>>
_extract_prices(d) ==
    LET PriceLike(t) == (\E i \in 1..Len(t) : IsDigit(t[i])) /\ Contains(t, "$")
    IN  <<d.origMeta,
          IF d.saleMeta /= None /\ d.saleMeta /= <<>> THEN d.saleMeta
          ELSE FirstText(d.texts, {i \in 1..Len(d.texts) : PriceLike(d.texts[i])})>>

_extract_score(d) ==
    \* "*" stands for the star glyph
    LET Starred(t) == Contains(t, "*") IN
    IF d.ratingMeta /= None /\ d.ratingMeta /= <<>> THEN d.ratingMeta
    ELSE FirstText(d.texts, {i \in 1..Len(d.texts) : Starred(d.texts[i])})

_extract_sold(d) ==
    LET Sold(t) == Contains(LowerText(t), "sold") IN
    FirstText(d.texts, {i \in 1..Len(d.texts) : Sold(d.texts[i])})

\* og:image, else the src of the first img of the document
_extract_image(d) ==
    LET S == {i \in 1..Len(d.elements) : d.elements[i].img /= None}
        first == CHOOSE i \in S : \A j \in S : i <= j
    IN  IF d.ogImage /= None /\ d.ogImage /= <<>> THEN d.ogImage
        ELSE IF S /= {} /\ d.elements[first].img /= <<>>
             THEN d.elements[first].img
        ELSE None

_parse_product_page(d, url) ==
    LET title == _extract_title(d)
        prices == _extract_prices(d)
    IN  Product(IF title = None THEN <<>> ELSE title,
                clean_price(prices[1]), clean_price(prices[2]),
                clean_score(_extract_score(d)), clean_sold(_extract_sold(d)),
                normalize_product_link(url), _extract_image(d), "P")

(***************************************************************************)
(* _parse_listing_page and scrape_url as functions of the document.        *)
(***************************************************************************)
\* strategy 1 over the script blocks from position i on: [raised, prods]
RECURSIVE ScriptProducts(_, _, _)
ScriptProducts(d, i, acc) ==
    IF i > Len(d.scripts) THEN [raised |-> FALSE, prods |-> acc]
    ELSE LET text == d.scripts[i] IN
         IF text = <<>> \/ ~Qualifies(text) THEN ScriptProducts(d, i + 1, acc)
         ELSE LET data == ExtractJson(text) IN
              IF ~data.ok THEN ScriptProducts(d, i + 1, acc)
              ELSE LET r == _products_from_json_blob(data.val, d.url) IN
                   IF r.raised THEN [raised |-> TRUE, prods |-> <<>>]
                   ELSE ScriptProducts(d, i + 1, acc \o r.prods)

\* [raised, prods]
_parse_listing_page(d) ==
    LET a == ScriptProducts(d, 1, <<>>) IN
    IF a.raised THEN a
    ELSE [raised |-> FALSE,
          prods |-> Dedupe(IF a.prods = <<>>
                           THEN CardStrategy(d.elements, d.url)
                           ELSE a.prods)]

\* What a GET of one URL of the list gives: site = [fetch, page].
\* fetch = "ok", "transport" (session.get raises) or "http" (an error
\* status: raise_for_status raises); page is the parsed response text.
\* [raised, prods]
scrape_url(site) ==
    IF site.fetch /= "ok" THEN [raised |-> TRUE, prods |-> <<>>]
    ELSE IF _looks_like_product_page(site.page)
         THEN [raised |-> FALSE,
               prods |-> <<_parse_product_page(site.page, site.page.url)>>]
    ELSE _parse_listing_page(site.page)

(***************************************************************************)
(* runner.main: the loop over the URL list and the export.                 *)
(*   urls: what each URL of the list gives when fetched;                   *)
(*   ui: the position of the for loop; all_products: the list built;       *)
(*   fetches[i]: the calls of session.get made for URL i (not in the code);*)
(*   exported: the rows handed to export_data;                             *)
(*   rpc: "loop", "exported", or "exit" after sys.exit(1).                 *)
(***************************************************************************)
Site(fetch, page) == [fetch |-> fetch, page |-> page]

UrlDoc(n, scripts, elements) ==
    Doc(<<"https://shop/", n>>, None, None, None, None, None, None, FALSE, None, None, <<>>, scripts, elements)

ProductDoc ==
    Doc(<<"https://shop/", "p">>, <<"product">>, <<"TikTok", "Shop">>, <<" ", "G">>, None, <<"1", "2">>, None, FALSE, None, None, <<<<"5", "Sold">>, <<"$", "8", " ">>, <<"4", "*">>>>, <<>>, <<ElemAnchor1>>)

SiteMenu ==
    {Site("transport", NoDoc),
     Site("http", UrlDoc("e", <<ScriptEndToEnd>>, <<>>)),
     Site("ok", UrlDoc("1", <<ScriptEndToEnd>>, <<ElemAnchor1>>)),
     Site("ok", UrlDoc("2", <<ScriptMalformed, ScriptTwo>>, <<>>)),
     Site("ok", UrlDoc("3", <<ScriptUrlA, ScriptEmptyImage>>, <<>>)),
     Site("ok", UrlDoc("4", <<ScriptNoProduct>>, <<ElemSearchCard>>)),
     Site("ok", UrlDoc("5", <<>>, <<>>)),
     Site("ok", ProductDoc)}

RunInit ==
    /\ urls \in SeqsUpTo(SiteMenu, MaxUrls)
    /\ ui = 1
    /\ all_products = <<>>
    /\ rpc = "loop"
    /\ fetches = [i \in 1..Len(urls) |-> 0]
    /\ exported = <<>>
    /\ JsonIdle
    /\ ListIdle
    /\ ClassIdle
    /\ MapIdle
    /\ SearchIdle
    /\ SortIdle
    /\ GenIdle
    /\ ValidIdle

\* if not urls: sys.exit(1)
RunNoUrls ==
    /\ rpc = "loop"
    /\ urls = <<>>
    /\ rpc' = "exit"
    /\ UNCHANGED <<urls, ui, all_products, fetches, exported, runRest>>

\* one pass of the loop body in which scrape_url returns
RunScraped ==
    /\ rpc = "loop"
    /\ ui <= Len(urls)
    /\ LET r == scrape_url(urls[ui]) IN
       /\ ~r.raised
       /\ all_products' = all_products \o r.prods
    /\ fetches' = [fetches EXCEPT ![ui] = @ + 1]
    /\ ui' = ui + 1
    /\ UNCHANGED <<urls, rpc, exported, runRest>>

\* a failure that ends the run instead of being caught
RunFailedAbort ==
    /\ rpc = "loop"
    /\ ui <= Len(urls)
    /\ scrape_url(urls[ui]).raised
    /\ fetches' = [fetches EXCEPT ![ui] = @ + 1]
    /\ rpc' = "exit"
    /\ UNCHANGED <<urls, ui, all_products, exported, runRest>>

\* one pass of the loop body in which scrape_url raises: except Exception
RunFailed ==
    /\ rpc = "loop"
    /\ ui <= Len(urls)
    /\ scrape_url(urls[ui]).raised
    /\ fetches' = [fetches EXCEPT ![ui] = @ + 1]
    /\ ui' = ui + 1
    /\ UNCHANGED <<urls, all_products, rpc, exported, runRest>>

\* export_data(all_products, ...): rows_list = list(rows)
RunExport ==
    /\ rpc = "loop"
    /\ urls /= <<>>
    /\ ui > Len(urls)
    /\ exported' = all_products
    /\ rpc' = "exported"
    /\ UNCHANGED <<urls, ui, all_products, fetches, runRest>>

RunNext == RunNoUrls \/ RunScraped \/ RunFailed \/ RunExport

SpecRun == RunInit /\ [][RunNext]_vars

\* the records of the URLs that succeeded, in URL-list order
RECURSIVE RecordsOfSucceeded(_)
RecordsOfSucceeded(sites) ==
    IF sites = <<>> THEN <<>>
    ELSE (IF scrape_url(Head(sites)).raised THEN <<>>
          ELSE scrape_url(Head(sites)).prods) \o RecordsOfSucceeded(Tail(sites))

\* C3: in the page-parse run a URL whose fetch or parse fails contributes
\* no record and does not abort the run: a run over a non-empty list never
\* exits early, every URL up to the loop position was fetched once, the
\* list built so far is the concatenation of the records of the succeeded
\* URLs before the loop position, and the exported sequence is that
\* concatenation over the whole list.
C3_FailedUrlContributesNothing ==
    /\ urls /= <<>> => rpc /= "exit"
    /\ rpc = "loop" =>
          /\ \A i \in 1..Len(urls) : fetches[i] = IF i < ui THEN 1 ELSE 0
          /\ all_products = RecordsOfSucceeded(SubSeq(urls, 1, ui - 1))
    /\ rpc = "exported" =>
          /\ \A i \in 1..Len(urls) : fetches[i] = 1
          /\ exported = RecordsOfSucceeded(urls)

\* an exported run in which a URL failed between two that gave records
C3_Witness ==
    /\ rpc = "exported"
    /\ \E i, j, k \in 1..Len(urls) :
          /\ i < j /\ j < k
          /\ ~scrape_url(urls[i]).raised /\ scrape_url(urls[i]).prods /= <<>>
          /\ scrape_url(urls[j]).raised
          /\ ~scrape_url(urls[k]).raised /\ scrape_url(urls[k]).prods /= <<>>
    /\ exported /= <<>>

(***************************************************************************)
(* The catalog-search pipeline (services/scraper.py, utils/parser.py).     *)
(* A Python value of a raw record is [t, n, s]: t = "none", "int" (n),     *)
(* "float" (n hundredths), "str" (s its characters) or "list" (s its       *)
(* elements, each a str).  A float keeps two decimals; further decimals    *)
(* of a parsed text are dropped.  A raw record is a function from keys to  *)
(* values.                                                                 *)
(***************************************************************************)
PyNone == [t |-> "none", n |-> 0, s |-> <<>>]
PyInt(n) == [t |-> "int", n |-> n, s |-> <<>>]
PyFloat(h) == [t |-> "float", n |-> h, s |-> <<>>]
PyS(s) == [t |-> "str", n |-> 0, s |-> s]
PyList(xs) == [t |-> "list", n |-> 0, s |-> xs]

\* raw.get(key)
RGet(r, key) == IF key \in DOMAIN r THEN r[key] ELSE PyNone

\* bool(v)
RTruthy(v) ==
    CASE v.t = "none" -> FALSE
      [] v.t \in {"int", "float"} -> v.n /= 0
      [] OTHER -> v.s /= <<>>

\* a or b
ROr(a, b) == IF RTruthy(a) THEN a ELSE b

Digits == <<"0", "1", "2", "3", "4", "5", "6", "7", "8", "9">>

DigitVal(c) == (CHOOSE d \in 1..10 : Digits[d] = c) - 1

\* str(n) for an int
RECURSIVE IntStr(_)
IntStr(n) ==
    IF n < 0 THEN <<"-">> \o IntStr(-n)
    ELSE IF n < 10 THEN <<Digits[n + 1]>>
    ELSE IntStr(n \div 10) \o <<Digits[(n % 10) + 1]>>

\* f"{x:.2f}" for a float of h hundredths
Fmt2(h) ==
    LET a == IF h < 0 THEN -h ELSE h IN
    (IF h < 0 THEN <<"-">> ELSE <<>>)
        \o IntStr(a \div 100)
        \o <<".", Digits[((a % 100) \div 10) + 1], Digits[(a % 10) + 1]>>

\* str(x) for a float: the shortest rendering, at least one decimal
FloatStr(h) ==
    LET a == IF h < 0 THEN -h ELSE h IN
    (IF h < 0 THEN <<"-">> ELSE <<>>)
        \o IntStr(a \div 100)
        \o <<".", Digits[((a % 100) \div 10) + 1]>>
        \o (IF a % 10 = 0 THEN <<>> ELSE <<Digits[(a % 10) + 1]>>)

\* str(xs) for a list of str
RECURSIVE ListStr(_)
ListStr(xs) ==
    IF xs = <<>> THEN <<>>
    ELSE <<"'">> \o Head(xs) \o <<"'">>
             \o (IF Len(xs) > 1 THEN <<",", " ">> ELSE <<>>) \o ListStr(Tail(xs))

\* str(v)
RStr(v) ==
    CASE v.t = "none" -> <<"N", "o", "n", "e">>
      [] v.t = "int" -> IntStr(v.n)
      [] v.t = "float" -> FloatStr(v.n)
      [] v.t = "str" -> v.s
      [] OTHER -> <<"[">> \o ListStr(v.s) \o <<"]">>

\* "".join(ch for ch in s if ch in keep)
Filter(s, keep) ==
    LET I == {i \in 1..Len(s) : s[i] \in keep} IN
    [n \in 1..Cardinality(I) |->
        s[CHOOSE i \in I : Cardinality({j \in I : j <= i}) = n]]

RECURSIVE DigitsVal(_)
DigitsVal(s) ==
    IF s = <<>> THEN 0 ELSE DigitsVal(SubSeq(s, 1, Len(s) - 1)) * 10 + DigitVal(s[Len(s)])

\* float(s) for a text of digits and "."; [ok, val]: ok = FALSE is the
\* ValueError
ParseFloat(s) ==
    LET dots == {i \in 1..Len(s) : s[i] = "."}
        dot == IF dots = {} THEN Len(s) + 1 ELSE CHOOSE i \in dots : TRUE
        whole == SubSeq(s, 1, dot - 1)
        frac == SubSeq(s, dot + 1, Len(s))
        frac2 == SubSeq(frac \o <<"0", "0">>, 1, 2)
    IN  IF Cardinality(dots) > 1 \/ Len(s) = Cardinality(dots)
        THEN [ok |-> FALSE, val |-> 0]
        ELSE [ok |-> TRUE, val |-> DigitsVal(whole) * 100 + DigitsVal(frac2)]

\* normalize_price: a float, in hundredths
normalize_price(v) ==
    IF v.t = "none" THEN 0
    ELSE IF v.t = "int" THEN v.n * 100
    ELSE IF v.t = "float" THEN v.n
    ELSE LET kept == {"0", "1", "2", "3", "4", "5", "6", "7", "8", "9", ".", ","}
             r == ParseFloat(Filter(Filter(RStr(v), kept), kept \ {","}))
         IN  IF r.ok THEN r.val ELSE 0

\* int(s) for a str: [ok, val]; ok = FALSE is the ValueError
ParseInt(s) ==
    LET t == Strip(s)
        signed == t /= <<>> /\ t[1] \in {"+", "-"}
        body == IF signed THEN Tail(t) ELSE t
    IN  IF body /= <<>> /\ \A i \in 1..Len(body) : IsDigit(body[i])
        THEN [ok |-> TRUE,
              val |-> IF signed /\ t[1] = "-" THEN -DigitsVal(body)
                      ELSE DigitsVal(body)]
        ELSE [ok |-> FALSE, val |-> 0]

\* int(v): [ok, val]; ok = FALSE is the ValueError or TypeError
PyIntOf(v) ==
    CASE v.t = "int" -> [ok |-> TRUE, val |-> v.n]
      [] v.t = "float" ->
            [ok |-> TRUE,
             val |-> IF v.n >= 0 THEN v.n \div 100 ELSE -((-v.n) \div 100)]
      [] v.t = "str" -> ParseInt(v.s)
      [] OTHER -> [ok |-> FALSE, val |-> 0]

\* region.upper(), letter by letter
AsciiLower ==
    <<"a", "b", "c", "d", "e", "f", "g", "h", "i", "j", "k", "l", "m",
      "n", "o", "p", "q", "r", "s", "t", "u", "v", "w", "x", "y", "z">>
AsciiUpper ==
    <<"A", "B", "C", "D", "E", "F", "G", "H", "I", "J", "K", "L", "M",
      "N", "O", "P", "Q", "R", "S", "T", "U", "V", "W", "X", "Y", "Z">>

UpperChar(c) ==
    IF \E i \in 1..Len(AsciiLower) : AsciiLower[i] = c
    THEN AsciiUpper[CHOOSE i \in 1..Len(AsciiLower) : AsciiLower[i] = c]
    ELSE c

Upper(s) == [i \in 1..Len(s) |-> UpperChar(s[i])]

\* a lookup that skips region.upper()
GuessCurrencyCaseSensitive(region) ==
    IF region = None \/ region = <<>> THEN <<"USD">>
    ELSE CASE region = <<"U", "S">> -> <<"USD">>
           [] region = <<"V", "N">> -> <<"VND">>
           [] region = <<"G", "B">> -> <<"GBP">>
           [] region = <<"E", "U">> -> <<"EUR">>
           [] region = <<"P", "K">> -> <<"PKR">>
           [] region = <<"I", "D">> -> <<"IDR">>
           [] region = <<"M", "Y">> -> <<"MYR">>
           [] region = <<"T", "H">> -> <<"THB">>
           [] region = <<"P", "H">> -> <<"PHP">>
           [] OTHER -> <<"USD">>

\* guess_currency_from_region; region is a str or None
guess_currency_from_region(region) ==
    LET code == Upper(region) IN
    IF region = None \/ region = <<>> THEN <<"USD">>
    ELSE CASE code = <<"U", "S">> -> <<"USD">>
           [] code = <<"V", "N">> -> <<"VND">>
           [] code = <<"G", "B">> -> <<"GBP">>
           [] code = <<"E", "U">> -> <<"EUR">>
           [] code = <<"P", "K">> -> <<"PKR">>
           [] code = <<"I", "D">> -> <<"IDR">>
           [] code = <<"M", "Y">> -> <<"MYR">>
           [] code = <<"T", "H">> -> <<"THB">>
           [] code = <<"P", "H">> -> <<"PHP">>
           [] OTHER -> <<"USD">>

\* to_iso8601.  The ISO text of an epoch number n is <<"iso">> and the
\* digits of n; a str is taken to parse when it starts with a digit.
to_iso8601(dt) ==
    IF ~RTruthy(dt) THEN PyNone
    ELSE IF dt.t = "int" THEN PyS(<<"iso">> \o IntStr(dt.n) \o <<"Z">>)
    ELSE IF dt.t = "float" THEN PyS(<<"iso">> \o FloatStr(dt.n) \o <<"Z">>)
    ELSE IF dt.t = "str"
         THEN IF IsDigit(LStrip(dt.s \o <<"x">>)[1])
              THEN PyS(<<"iso">> \o Strip(dt.s)) ELSE PyNone
    ELSE PyNone

\* the fields of a catalog record
CatalogFields ==
    {"product_id", "title", "cover", "img", "price", "currency", "format_price",
     "discount", "warehouse_region", "product_rating", "sold_count",
     "review_count", "seller_name", "seller_id", "promotion_labels",
     "created_at", "last_seen_at", "_source"}

\* map_product: [raised, rec].  raised is the ValueError / TypeError of
\* int() on the count fields, or the TypeError of images[0] on a number.
map_product(r, region) ==
    LET currency == ROr(RGet(r, "currency"), PyS(guess_currency_from_region(region)))
        images0 == ROr(ROr(RGet(r, "img"), RGet(r, "images")), PyList(<<>>))
        images == IF images0.t = "str" THEN PyList(<<images0.s>>) ELSE images0
        coverRaises == ~RTruthy(RGet(r, "cover")) /\ RTruthy(images)
                           /\ images.t /= "list"
        cover == ROr(RGet(r, "cover"),
                     IF RTruthy(images) /\ images.t = "list"
                     THEN PyS(images.s[1]) ELSE PyNone)
        sold == PyIntOf(ROr(ROr(RGet(r, "sold_count"), RGet(r, "sold")), PyInt(0)))
        reviews == PyIntOf(ROr(ROr(RGet(r, "review_count"), RGet(r, "reviews")),
                               PyInt(0)))
        rec == [f \in CatalogFields |->
            CASE f = "product_id" ->
                    PyS(RStr(ROr(ROr(RGet(r, "product_id"), RGet(r, "id")), PyS(<<>>))))
              [] f = "title" -> ROr(ROr(RGet(r, "title"), RGet(r, "name")), PyS(<<>>))
              [] f = "cover" -> cover
              [] f = "img" -> images
              [] f = "price" ->
                    PyFloat(normalize_price(
                        ROr(ROr(RGet(r, "price"), RGet(r, "min_price")), PyInt(0))))
              [] f = "currency" -> currency
              [] f = "format_price" ->
                    ROr(RGet(r, "format_price"),
                        PyS(Fmt2(normalize_price(RGet(r, "price")))
                                \o <<" ">> \o RStr(currency)))
              [] f = "discount" -> RGet(r, "discount")
              [] f = "warehouse_region" ->
                    ROr(RGet(r, "warehouse_region"), RGet(r, "ship_from"))
              [] f = "product_rating" ->
                    PyS(RStr(ROr(ROr(RGet(r, "product_rating"), RGet(r, "rating")),
                                 PyS(<<>>))))
              [] f = "sold_count" -> PyInt(sold.val)
              [] f = "review_count" -> PyInt(reviews.val)
              [] f = "seller_name" ->
                    ROr(ROr(RGet(r, "seller_name"), RGet(r, "shop_name")), PyS(<<>>))
              [] f = "seller_id" ->
                    PyS(RStr(ROr(ROr(RGet(r, "seller_id"), RGet(r, "shop_id")), PyS(<<>>))))
              [] f = "promotion_labels" ->
                    ROr(ROr(RGet(r, "promotion_labels"), RGet(r, "badges")), PyList(<<>>))
              [] f = "created_at" -> to_iso8601(RGet(r, "created_at"))
              [] f = "last_seen_at" -> to_iso8601(RGet(r, "last_seen_at"))
              [] OTHER -> ROr(RGet(r, "_source"), PyS(<<"mock">>))]
    IN  IF coverRaises \/ ~sold.ok \/ ~reviews.ok
        THEN [raised |-> TRUE, rec |-> <<>>]
        ELSE [raised |-> FALSE, rec |-> rec]

(***************************************************************************)
(* map_product on one raw record, as a process of one step.                *)
(***************************************************************************)
RawKeys ==
    {"product_id", "id", "price", "min_price", "sold_count", "sold",
     "review_count", "currency", "img"}

RawValues ==
    {PyNone, PyInt(0), PyInt(7), PyFloat(250), PyS(<<" ", "4", "2">>),
     PyS(<<"$", "1", ",", "0", "0", "9", ".", "9", "9">>),
     PyS(<<"1", ".", "5", "k">>), PyS(<<"a", ".", "b", ".">>),
     PyList(<<<<"u">>>>)}

Regions == {None, <<"v", "n">>, <<"x", "x">>}

\* the raw records with at most MaxKeys keys
RawRecords ==
    UNION {[K -> RawValues] : K \in {K \in SUBSET RawKeys : Cardinality(K) <= MaxKeys}}

MapInit ==
    /\ raw \in RawRecords
    /\ mregion \in Regions
    /\ mpc = "call"
    /\ mapped = <<>>
    /\ JsonIdle
    /\ ListIdle
    /\ ClassIdle
    /\ RunIdle
    /\ SearchIdle
    /\ SortIdle
    /\ GenIdle
    /\ ValidIdle

\* map_product returns a record
MapReturn ==
    /\ mpc = "call"
    /\ ~map_product(raw, mregion).raised
    /\ mapped' = map_product(raw, mregion).rec
    /\ mpc' = "returned"
    /\ UNCHANGED <<raw, mregion, mapRest>>

\* an exception leaves map_product
MapRaise ==
    /\ mpc = "call"
    /\ map_product(raw, mregion).raised
    /\ mpc' = "raised"
    /\ UNCHANGED <<raw, mregion, mapped, mapRest>>

MapNext == MapReturn \/ MapRaise

SpecMap == MapInit /\ [][MapNext]_vars

\* the value the count field is coerced from
CountSource(r, key, alt) == ROr(ROr(RGet(r, key), RGet(r, alt)), PyInt(0))

\* C10: map_product is total: for every raw mapping it returns a record
\* without raising, with sold_count and review_count 0 when absent or
\* unparsable, price 0.0 when absent or unparsable, and product_id and
\* seller_id the empty string when absent.
C10_MapProductTotal ==
    /\ mpc /= "raised"
    /\ mpc = "returned" =>
          /\ ~PyIntOf(CountSource(raw, "sold_count", "sold")).ok
                => mapped["sold_count"] = PyInt(0)
          /\ ~PyIntOf(CountSource(raw, "review_count", "reviews")).ok
                => mapped["review_count"] = PyInt(0)
          /\ ({"price", "min_price"} \cap DOMAIN raw = {})
                => mapped["price"] = PyFloat(0)
          /\ ({"product_id", "id"} \cap DOMAIN raw = {})
                => mapped["product_id"] = PyS(<<>>)
          /\ mapped["seller_id"] = PyS(<<>>)

(***************************************************************************)
(* _mock_products.  random.Random(seed_basis) is a deterministic stream    *)
(* fixed by the seed text; the stream is modelled by Draw(seed, n), the    *)
(* n-th number drawn, a fixed function of the seed text and of n (the      *)
(* Mersenne Twister itself is not reproduced).  Every rnd call takes one   *)
(* number, in the order of the calls in the code.                          *)
(***************************************************************************)
PidLen == 18
ImgHashLen == 8
SellerIdLen == 10
TitleKwLen == 20
DrawsPerProduct == 42
DrawModulus == 65536

CharCode(c) ==
    CASE c = "shoes" -> 11 [] c = "trending" -> 23 [] c = "|" -> 3
      [] c = "U" -> 5 [] c = "S" -> 7 [] c = "V" -> 13 [] c = "N" -> 17
      [] c = "v" -> 19 [] c = "n" -> 29 [] c = "0" -> 31 [] c = "1" -> 37
      [] OTHER -> 41

RECURSIVE SeedHash(_)
SeedHash(s) ==
    IF s = <<>> THEN 1
    ELSE (SeedHash(SubSeq(s, 1, Len(s) - 1)) * 131 + CharCode(s[Len(s)])) % DrawModulus

\* the n-th number of the stream of the seed text
Draw(seed, n) == (SeedHash(seed) * 7919 + n * 10007 + n * n * 31) % DrawModulus

\* f"{keyword or 'trending'}|{region or 'US'}|{int(is_trending)}"
seed_basis(keyword, is_trending, region) ==
    (IF keyword = None \/ keyword = <<>> THEN <<"trending">> ELSE keyword)
        \o <<"|">>
        \o (IF region = None \/ region = <<>> THEN <<"U", "S">> ELSE region)
        \o <<"|">> \o (IF is_trending THEN <<"1">> ELSE <<"0">>)

labels_pool ==
    <<PyList(<<<<"Flash Sale">>>>), PyList(<<<<"Top Choice Star Shop">>>>),
      PyList(<<<<"Editor Pick">>>>), PyList(<<>>), PyList(<<<<"Limited Offer">>>>)>>

discount_pool ==
    <<PyNone, PyS(<<"10%">>), PyS(<<"15%">>), PyS(<<"25%">>), PyS(<<"40%">>)>>

HashChars ==
    <<"a", "b", "c", "d", "e", "f", "g", "h", "i", "j", "k", "l", "m", "n", "o",
      "p", "q", "r", "s", "t", "u", "v", "w", "x", "y", "z">> \o Digits

\* the i-th record the generator yields (i from 1), its rnd having given
\* `at` numbers before
MockProductAt(keyword, is_trending, region, i, at) ==
    LET seed == seed_basis(keyword, is_trending, region)
        D(n) == Draw(seed, at + n)
        sold == 10 + (D(1) % 49991)
        price == 100 + (D(2) % 29901)
        discount == discount_pool[(D(3) % 5) + 1]
        pid == [j \in 1..PidLen |-> Digits[(D(3 + j) % 10) + 1]]
        img_hash == [j \in 1..ImgHashLen |-> HashChars[(D(21 + j) % 36) + 1]]
        kw == IF keyword = None \/ keyword = <<>> THEN <<"Trending">> ELSE keyword
        title_kw == SubSeq(kw, 1, IF Len(kw) < TitleKwLen THEN Len(kw) ELSE TitleKwLen)
        rating == 10 * (32 + (D(30) % 19))
        sold5 == sold \div 5
        reviews == D(31) % ((IF sold5 > 10 THEN sold5 ELSE 10) + 1)
        seller == [j \in 1..SellerIdLen |-> Digits[(D(31 + j) % 10) + 1]]
        labels == labels_pool[(D(42) % 5) + 1]
        base == <<"https://picsum.photos/seed/">> \o img_hash
    IN  [k \in {"product_id", "title", "cover", "img", "price", "currency",
                "format_price", "discount", "warehouse_region", "product_rating",
                "sold_count", "review_count", "seller_name", "seller_id",
                "promotion_labels", "_source"} |->
            CASE k = "product_id" -> PyS(pid)
              [] k = "title" -> PyS(title_kw \o <<" Product ">> \o IntStr(i))
              [] k = "cover" -> PyS(base \o <<"/400/400.webp">>)
              [] k = "img" -> PyList(<<base \o <<"a/800/800.webp">>,
                                       base \o <<"b/800/800.webp">>>>)
              [] k = "price" -> PyFloat(price)
              [] k = "currency" -> PyS(guess_currency_from_region(region))
              [] k = "format_price" -> PyNone
              [] k = "discount" -> discount
              [] k = "warehouse_region" ->
                    PyS(IF region = None \/ region = <<>> THEN <<"U", "S">> ELSE region)
              [] k = "product_rating" -> PyFloat(rating)
              [] k = "sold_count" -> PyInt(sold)
              [] k = "review_count" -> PyInt(reviews)
              [] k = "seller_name" -> PyS(title_kw \o <<" Seller">>)
              [] k = "seller_id" -> PyS(seller)
              [] k = "promotion_labels" -> labels
              [] OTHER -> PyS(<<"mock">>)]

\* the i-th record of a generator consumed from its start
MockProduct(keyword, is_trending, region, i) ==
    MockProductAt(keyword, is_trending, region, i, (i - 1) * DrawsPerProduct)

\* list(self._mock_products(keyword, is_trending, region, limit))
_mock_products(keyword, is_trending, region, limit) ==
    [i \in 1..limit |-> MockProduct(keyword, is_trending, region, i)]

(***************************************************************************)
(* _apply_sort.  sorted() is stable, also with reverse=True.               *)
(***************************************************************************)
\* float(v): [ok, val in hundredths]; ok = FALSE is the TypeError or
\* ValueError
PyFloatOf(v) ==
    CASE v.t = "int" -> [ok |-> TRUE, val |-> v.n * 100]
      [] v.t = "float" -> [ok |-> TRUE, val |-> v.n]
      [] v.t = "str" ->
            LET t == Strip(v.s)
                signed == t /= <<>> /\ t[1] \in {"+", "-"}
                body == IF signed THEN Tail(t) ELSE t
                r == ParseFloat(body)
            IN  IF (\A i \in 1..Len(body) : IsDigit(body[i]) \/ body[i] = ".") /\ r.ok
                THEN [ok |-> TRUE,
                      val |-> IF signed /\ t[1] = "-" THEN -r.val ELSE r.val]
                ELSE [ok |-> FALSE, val |-> 0]
      [] OTHER -> [ok |-> FALSE, val |-> 0]

\* x.get(key, 0)
RGetOrZero(r, key) == IF key \in DOMAIN r THEN r[key] ELSE PyInt(0)

\* the key function of the mode: [ok, val]
SortKey(x, sort) ==
    IF sort = "BEST_SELLERS" THEN PyIntOf(RGetOrZero(x, "sold_count"))
    ELSE PyFloatOf(RGetOrZero(x, "price"))

\* sorted(xs, key, reverse) for the keys ks of xs: the element at position
\* i goes behind the elements that sort before it and behind the equal
\* ones that stood before it
StableSorted(xs, ks, reverse) ==
    LET Before(j, i) ==
            \/ (IF reverse THEN ks[j] > ks[i] ELSE ks[j] < ks[i])
            \/ (ks[j] = ks[i] /\ j < i)
        Rank(i) == 1 + Cardinality({j \in 1..Len(xs) : Before(j, i)})
    IN  [n \in 1..Len(xs) |-> xs[CHOOSE i \in 1..Len(xs) : Rank(i) = n]]

\* a descending sort made by reversing the ascending one
ApplySortReversed(xs, sort) ==
    IF sort \in {"PRICE_ASC", "PRICE_DESC", "BEST_SELLERS"}
    THEN IF \E i \in 1..Len(xs) : ~SortKey(xs[i], sort).ok
         THEN [raised |-> TRUE, items |-> <<>>]
         ELSE LET asc == StableSorted(xs, [i \in 1..Len(xs) |-> SortKey(xs[i], sort).val],
                                      FALSE)
              IN  [raised |-> FALSE,
                   items |-> IF sort = "PRICE_ASC" THEN asc
                             ELSE [i \in 1..Len(xs) |-> asc[Len(xs) + 1 - i]]]
    ELSE [raised |-> FALSE, items |-> xs]

\* [raised, items]: raised when a key cannot be computed
_apply_sort(xs, sort) ==
    IF sort \in {"PRICE_ASC", "PRICE_DESC", "BEST_SELLERS"}
    THEN IF \E i \in 1..Len(xs) : ~SortKey(xs[i], sort).ok
         THEN [raised |-> TRUE, items |-> <<>>]
         ELSE [raised |-> FALSE,
               items |-> StableSorted(xs, [i \in 1..Len(xs) |-> SortKey(xs[i], sort).val],
                                      sort /= "PRICE_ASC")]
    ELSE [raised |-> FALSE, items |-> xs]

\* [map_product(p, region) for p in xs]: [raised, items]
MapAll(xs, region) ==
    IF \E i \in 1..Len(xs) : map_product(xs[i], region).raised
    THEN [raised |-> TRUE, items |-> <<>>]
    ELSE [raised |-> FALSE,
          items |-> [i \in 1..Len(xs) |-> map_product(xs[i], region).rec]]

\* xs[:n]
Take(xs, n) == SubSeq(xs, 1, IF Len(xs) < n THEN Len(xs) ELSE n)

\* the mock path of search (offline mode and the except branch):
\* generate, sort, map; [raised, items]
MockPath(r) ==
    LET sorted == _apply_sort(
                      _mock_products(r.keyword, r.is_trending, r.region, r.limit),
                      r.sort)
    IN  IF sorted.raised THEN sorted ELSE MapAll(sorted.items, r.region)

\* _search_keyword, then sort, cut and map; [raised, items]
KeywordPath(r) ==
    LET found == _mock_products(IF r.keyword = None THEN <<>> ELSE r.keyword,
                                r.is_trending, r.region, r.limit)
        sorted == _apply_sort(found, r.sort)
    IN  IF sorted.raised THEN sorted
        ELSE MapAll(Take(sorted.items, r.limit), r.region)

(***************************************************************************)
(* TikTokShopScraper.search and the retried _fetch_url.                    *)
(***************************************************************************)
\* @retry(stop=stop_after_attempt(3)): the attempt ceiling of _fetch_url
StopAfterAttempt == 3
\* url[:40] in the title of a fetched record
UrlTitleLen == 40

SortModes == {"RELEVANCE", "PRICE_ASC", "PRICE_DESC", "BEST_SELLERS"}
\* ScraperConfig.max_retries values of the model
RetryBudgets == {1, 3, 5}
\* how many attempts on a URL fail before one succeeds
FailMenu == {0, 1, 4}
UrlMenu == [url : {<<"h", "/", "a">>}, fails : FailMenu]

\* the values random gives one _fetch_url call (random is unseeded there)
FetchRandoms ==
    { [pid |-> <<"1", "2">>, price |-> 500, rating |-> 300, sold |-> 0, reviews |-> 0],
      [pid |-> <<"3", "4">>, price |-> 15000, rating |-> 500, sold |-> 5000, reviews |-> 800],
      [pid |-> <<"1", "2">>, price |-> 999, rating |-> 410, sold |-> 7, reviews |-> 800] }

\* the dict _fetch_url returns
FetchedRaw(url, region, rnd) ==
    [k \in {"product_id", "title", "cover", "img", "price", "currency",
            "format_price", "discount", "warehouse_region", "product_rating",
            "sold_count", "review_count", "seller_name", "seller_id",
            "promotion_labels", "_source"} |->
        CASE k = "product_id" -> PyS(rnd.pid)
          [] k = "title" -> PyS(<<"Parsed: ">> \o Take(url, UrlTitleLen))
          [] k = "cover" -> PyNone
          [] k = "img" -> PyList(<<>>)
          [] k = "price" -> PyFloat(rnd.price)
          [] k = "currency" -> PyS(guess_currency_from_region(region))
          [] k = "format_price" -> PyNone
          [] k = "discount" -> PyNone
          [] k = "warehouse_region" -> IF region = None THEN PyNone ELSE PyS(region)
          [] k = "product_rating" -> PyFloat(rnd.rating)
          [] k = "sold_count" -> PyInt(rnd.sold)
          [] k = "review_count" -> PyInt(rnd.reviews)
          [] k = "seller_name" -> PyS(<<"Unknown">>)
          [] k = "seller_id" -> PyS(<<"0">>)
          [] k = "promotion_labels" -> PyList(<<>>)
          [] OTHER -> PyS(<<"fetch_url">>)]

\* start_urls = <<>> stands for None and for []: search tests only
\* `if start_urls:`
SearchRequests ==
    [keyword : {None, <<"s", "h", "o", "e">>},
     is_trending : BOOLEAN,
     region : {None, <<"v", "n">>},
     sort : SortModes,
     limit : 1..MaxLimit,
     start_urls : SeqsUpTo(UrlMenu, MaxStartUrls)]

SearchInit ==
    /\ cfg \in [offline_mode : BOOLEAN, max_retries : RetryBudgets]
    /\ req \in SearchRequests
    /\ spc = "call"
    /\ sidx = 0
    /\ attempt = 0
    /\ items = <<>>
    /\ out = <<>>
    /\ attemptLog = <<>>
    /\ usedMock = FALSE
    /\ JsonIdle
    /\ ListIdle
    /\ ClassIdle
    /\ RunIdle
    /\ MapIdle
    /\ SortIdle
    /\ GenIdle
    /\ ValidIdle

\* `if start_urls:`
HasStartUrls == req.start_urls /= <<>>
\* start_urls[:limit]
UrlsToFetch == Take(req.start_urls, req.limit)

\* an except branch that lets the failure through
FallbackPropagates ==
    /\ UNCHANGED usedMock
    /\ out' = <<>>
    /\ spc' = "raised"

\* the except branch of search: the mock path; an exception of the mock
\* path itself is not caught
FallbackToMock ==
    LET m == MockPath(req)
    IN  /\ usedMock' = TRUE
        /\ out' = m.items
        /\ spc' = IF m.raised THEN "raised" ELSE "returned"

\* a result of the try block: returned, or caught by the except branch
FinishOnline(r) ==
    IF r.raised THEN FallbackToMock
    ELSE /\ out' = r.items
         /\ spc' = "returned"
         /\ UNCHANGED usedMock

\* an offline branch that honours start URLs before the mock data
SearchOfflineFetchesUrls ==
    /\ spc = "call"
    /\ cfg.offline_mode
    /\ IF HasStartUrls
       THEN /\ spc' = "fetching"
            /\ sidx' = 1
            /\ UNCHANGED <<out, usedMock>>
       ELSE /\ out' = MockPath(req).items
            /\ spc' = "returned"
            /\ usedMock' = TRUE
            /\ UNCHANGED sidx
    /\ UNCHANGED <<cfg, req, attempt, items, attemptLog>>
    /\ UNCHANGED searchRest

\* offline mode: mock, sort, map; nothing is fetched
SearchOffline ==
    /\ spc = "call"
    /\ cfg.offline_mode
    /\ LET m == MockPath(req)
       IN  /\ out' = m.items
           /\ spc' = IF m.raised THEN "raised" ELSE "returned"
    /\ usedMock' = TRUE
    /\ UNCHANGED <<cfg, req, sidx, attempt, items, attemptLog>>
    /\ UNCHANGED searchRest

\* online, no start URLs: the simulated keyword search
SearchKeyword ==
    /\ spc = "call"
    /\ ~cfg.offline_mode
    /\ ~HasStartUrls
    /\ FinishOnline(KeywordPath(req))
    /\ UNCHANGED <<cfg, req, sidx, attempt, items, attemptLog>>
    /\ UNCHANGED searchRest

\* online with start URLs: enter the fetch loop
SearchStartUrls ==
    /\ spc = "call"
    /\ ~cfg.offline_mode
    /\ HasStartUrls
    /\ spc' = "fetching"
    /\ sidx' = 1
    /\ attempt' = 0
    /\ items' = <<>>
    /\ UNCHANGED <<cfg, req, out, attemptLog, usedMock>>
    /\ UNCHANGED searchRest

\* an attempt of _fetch_url succeeds: the record is appended, next URL
FetchAttemptOk ==
    /\ spc = "fetching"
    /\ sidx <= Len(UrlsToFetch)
    /\ attempt >= UrlsToFetch[sidx].fails
    /\ \E rnd \in FetchRandoms :
          items' = Append(items, FetchedRaw(UrlsToFetch[sidx].url, req.region, rnd))
    /\ attemptLog' = Append(attemptLog, attempt + 1)
    /\ sidx' = sidx + 1
    /\ attempt' = 0
    /\ UNCHANGED <<cfg, req, spc, out, usedMock>>
    /\ UNCHANGED searchRest

\* an attempt fails below the ceiling: tenacity waits and calls again
FetchRetry ==
    /\ spc = "fetching"
    /\ sidx <= Len(UrlsToFetch)
    /\ attempt < UrlsToFetch[sidx].fails
    /\ attempt + 1 < StopAfterAttempt
    /\ attempt' = attempt + 1
    /\ UNCHANGED <<cfg, req, spc, sidx, items, out, attemptLog, usedMock>>
    /\ UNCHANGED searchRest

\* the last allowed attempt fails: RetryError leaves _fetch_url and is
\* caught by search, which falls back to the mock path
FetchGiveUp ==
    /\ spc = "fetching"
    /\ sidx <= Len(UrlsToFetch)
    /\ attempt < UrlsToFetch[sidx].fails
    /\ attempt + 1 = StopAfterAttempt
    /\ attemptLog' = Append(attemptLog, attempt + 1)
    /\ attempt' = attempt + 1
    /\ FallbackToMock
    /\ UNCHANGED <<cfg, req, sidx, items>>
    /\ UNCHANGED searchRest

\* the loop is over: the fetched records are cut and mapped, not sorted
FetchDone ==
    /\ spc = "fetching"
    /\ sidx > Len(UrlsToFetch)
    /\ FinishOnline(MapAll(Take(items, req.limit), req.region))
    /\ UNCHANGED <<cfg, req, sidx, attempt, items, attemptLog>>
    /\ UNCHANGED searchRest

SearchNext ==
    \/ SearchOffline
    \/ SearchKeyword
    \/ SearchStartUrls
    \/ FetchAttemptOk
    \/ FetchRetry
    \/ FetchGiveUp
    \/ FetchDone

SpecSearch == SearchInit /\ [][SearchNext]_vars

\* the _fetch_url call logged last ended with every attempt failed
FetchRaised ==
    /\ attemptLog /= <<>>
    /\ attemptLog[Len(attemptLog)] <= UrlsToFetch[Len(attemptLog)].fails

\* the mock generator's output for the request, sorted by the requested
\* mode, mapped to the catalog shape
MockSortedMapped ==
    MapAll(_apply_sort(_mock_products(req.keyword, req.is_trending, req.region, req.limit),
                       req.sort).items,
           req.region).items

\* C4: in online mode search never ends with an exception, and once a fetch
\* has raised, search has returned the mock generator's output for the same
\* keyword, is_trending, region and limit, sorted by the requested mode and
\* mapped to the catalog shape.
C4_OnlineFallsBackToMock ==
    ~cfg.offline_mode =>
        /\ spc /= "raised"
        /\ FetchRaised => (spc = "returned" /\ out = MockSortedMapped)

\* a fetch succeeded, the next one failed on every attempt, and the search
\* returned the sorted mock records, in an order other than the generated one
C4_Witness ==
    /\ ~cfg.offline_mode
    /\ spc = "returned"
    /\ Len(attemptLog) = 2
    /\ items /= <<>>
    /\ FetchRaised
    /\ Len(out) = 2
    /\ out = MockSortedMapped
    /\ out /= MapAll(_mock_products(req.keyword, req.is_trending, req.region, req.limit),
                     req.region).items
    /\ \A i \in 1..Len(out) : out[i]["_source"] = PyS(<<"mock">>)

\* C5: the attempts made for one URL are bounded by cfg.max_retries, and a
\* fetch is reported as failed only after exactly that many attempts failed.
C5_AttemptsBoundedByConfiguredBudget ==
    /\ spc = "fetching" => attempt < cfg.max_retries
    /\ \A n \in 1..Len(attemptLog) :
          /\ attemptLog[n] <= cfg.max_retries
          /\ attemptLog[n] <= UrlsToFetch[n].fails => attemptLog[n] = cfg.max_retries

(***************************************************************************)
(* map_product over region codes of either letter case.                    *)
(***************************************************************************)
\* the letters of the region table, in both cases
RegionChars ==
    {"u", "s", "v", "n", "g", "b", "e", "p", "k", "i", "d", "m", "y", "t", "h",
     "U", "S", "V", "N", "G", "B", "E", "P", "K", "I", "D", "M", "Y", "T", "H"}

\* None, the empty text, every two-letter code, a shorter and a longer text
CurrencyRegions ==
    {None, <<>>, <<"u">>, <<"u", "s", "a">>} \cup [1..2 -> RegionChars]

\* raw records with or without a currency (null, empty or a text) and
\* with or without a count, which int() accepts or refuses
CurrencyRaws ==
    LET cur == [{"currency"} -> {PyNone, PyS(<<>>), PyS(<<"EUR">>), PyS(<<"usd">>)}]
        cnt == [{"sold_count"} -> {PyInt(7), PyS(<<"1", ".", "5", "k">>)}]
    IN  [{} -> {PyNone}] \cup cur \cup cnt
            \cup {[k \in {"currency", "sold_count"} |->
                      IF k = "currency" THEN c["currency"] ELSE n["sold_count"]] :
                  c \in cur, n \in cnt}

CurrencyInit ==
    /\ raw \in CurrencyRaws
    /\ mregion \in CurrencyRegions
    /\ mpc = "call"
    /\ mapped = <<>>
    /\ JsonIdle
    /\ ListIdle
    /\ ClassIdle
    /\ RunIdle
    /\ SearchIdle
    /\ SortIdle
    /\ GenIdle
    /\ ValidIdle

SpecCurrency == CurrencyInit /\ [][MapNext]_vars

\* the region table of the specification, keyed by upper-case code
RegionTable ==
    { <<"US", "USD">>, <<"VN", "VND">>, <<"GB", "GBP">>, <<"EU", "EUR">>,
      <<"PK", "PKR">>, <<"ID", "IDR">>, <<"MY", "MYR">>, <<"TH", "THB">>,
      <<"PH", "PHP">> }

\* the two texts have the same letters up to letter case
SameUpToCase(a, b) ==
    /\ a /= None
    /\ b /= None
    /\ Len(a) = Len(b)
    /\ \A i \in 1..Len(a) :
          \/ a[i] = b[i]
          \/ \E j \in 1..Len(AsciiLower) :
                {a[i], b[i]} = {AsciiLower[j], AsciiUpper[j]}

\* the code of a table entry, letter by letter
CodeLetters(code) ==
    CASE code = "US" -> <<"U", "S">> [] code = "VN" -> <<"V", "N">>
      [] code = "GB" -> <<"G", "B">> [] code = "EU" -> <<"E", "U">>
      [] code = "PK" -> <<"P", "K">> [] code = "ID" -> <<"I", "D">>
      [] code = "MY" -> <<"M", "Y">> [] code = "TH" -> <<"T", "H">>
      [] code = "PH" -> <<"P", "H">>

\* the table's currency for a region, USD for an unknown or absent one
TableCurrency(region) ==
    LET hits == {e \in RegionTable : SameUpToCase(CodeLetters(e[1]), region)}
    IN  IF hits = {} THEN <<"USD">> ELSE <<(CHOOSE e \in hits : TRUE)[2]>>

\* C11 (amended): the currency of the mapped record is the raw record's
\* currency field when that field holds a non-empty value, and otherwise
\* (field absent, null or empty) the region table's entry for the
\* upper-cased region, USD for an unknown or absent region; regions that
\* differ only in letter case give the same currency.
C11_CurrencyFromFieldOrRegion ==
    mpc = "returned" =>
        /\ RTruthy(RGet(raw, "currency")) => mapped["currency"] = raw["currency"]
        /\ ~RTruthy(RGet(raw, "currency"))
              => mapped["currency"] = PyS(TableCurrency(mregion))
        /\ \A r2 \in CurrencyRegions :
              SameUpToCase(r2, mregion)
                  => map_product(raw, r2).rec["currency"] = mapped["currency"]

\* a record without currency mapped under a mixed-case region code
C11_Witness ==
    /\ mpc = "returned"
    /\ "currency" \notin DOMAIN raw
    /\ mregion = <<"v", "N">>
    /\ mapped["currency"] = PyS(<<"VND">>)

\* C11 as stated: whenever the currency field is present in the raw record,
\* the mapped currency is that field; the table is used only when it is
\* absent.
C11_CurrencyFieldWhenPresent ==
    mpc = "returned" =>
        /\ "currency" \in DOMAIN raw => mapped["currency"] = raw["currency"]
        /\ "currency" \notin DOMAIN raw
              => mapped["currency"] = PyS(TableCurrency(mregion))

(***************************************************************************)
(* _apply_sort on one list of raw records.                                 *)
(***************************************************************************)
\* marks a key the record does not have
Absent == [t |-> "absent", n |-> 0, s |-> <<>>]

\* a raw record with the given id
SortRecord(id, price, sold) ==
    LET keys == {"product_id"}
                    \cup (IF price.t = "absent" THEN {} ELSE {"price"})
                    \cup (IF sold.t = "absent" THEN {} ELSE {"sold_count"})
    IN  [k \in keys |-> CASE k = "product_id" -> PyS(<<id>>)
                          [] k = "price" -> price
                          [] OTHER -> sold]

\* records with equal keys under different representations, with missing
\* keys, with null values and with texts that are no numbers
SortRecords ==
    { SortRecord("A", PyFloat(500), PyInt(7)),
      SortRecord("B", PyInt(5), PyS(<<"7">>)),
      SortRecord("C", PyS(<<"9", ".", "9", "9">>), PyInt(0)),
      SortRecord("D", Absent, Absent),
      SortRecord("E", PyNone, PyFloat(750)),
      SortRecord("F", PyFloat(100), PyS(<<"1", ".", "5", "k">>)),
      SortRecord("G", PyFloat(999), PyNone) }

\* the four modes of the interface and one that is none of them
SortModeInputs == SortModes \cup {"NEWEST"}

SortInit ==
    /\ sortIn \in SeqsUpTo(SortRecords, MaxSortLen)
    /\ sortMode \in SortModeInputs
    /\ sortOut = <<>>
    /\ sortPc = "call"
    /\ JsonIdle
    /\ ListIdle
    /\ ClassIdle
    /\ RunIdle
    /\ MapIdle
    /\ SearchIdle
    /\ GenIdle
    /\ ValidIdle

\* _apply_sort returns a list
SortReturn ==
    /\ sortPc = "call"
    /\ ~_apply_sort(sortIn, sortMode).raised
    /\ sortOut' = _apply_sort(sortIn, sortMode).items
    /\ sortPc' = "returned"
    /\ UNCHANGED <<sortIn, sortMode, sortRest>>

\* a key lambda raises inside sorted()
SortRaise ==
    /\ sortPc = "call"
    /\ _apply_sort(sortIn, sortMode).raised
    /\ sortPc' = "raised"
    /\ UNCHANGED <<sortIn, sortMode, sortOut, sortRest>>

SortNext == SortReturn \/ SortRaise

SpecSort == SortInit /\ [][SortNext]_vars

\* the output is the input rearranged by f, in the order of the mode's
\* key, records with equal keys in their input order
SortedStablyBy(f, desc) ==
    /\ \A i \in 1..Len(sortIn) : sortOut[i] = sortIn[f[i]]
    /\ \A i, j \in 1..Len(sortIn) :
          i < j =>
              LET ki == SortKey(sortIn[f[i]], sortMode).val
                  kj == SortKey(sortIn[f[j]], sortMode).val
              IN  /\ IF desc THEN ki >= kj ELSE ki <= kj
                  /\ ki = kj => f[i] < f[j]

\* C12: what _apply_sort returns is a permutation of its input, ordered by
\* the mode's key (PRICE_ASC non-decreasing price, PRICE_DESC non-increasing
\* price, BEST_SELLERS non-increasing sold_count), records with equal keys
\* in their input order in every mode; for RELEVANCE and for an
\* unrecognised mode the output is the input.
C12_SortStablePermutation ==
    sortPc = "returned" =>
        /\ Len(sortOut) = Len(sortIn)
        /\ IF sortMode \in {"PRICE_ASC", "PRICE_DESC", "BEST_SELLERS"}
           THEN \E f \in Permutations(1..Len(sortIn)) :
                    SortedStablyBy(f, sortMode /= "PRICE_ASC")
           ELSE sortOut = sortIn

\* a descending sort that moved a record to the front and kept two records
\* of equal price, written 5.0 and 5, in their input order
C12_Witness ==
    /\ sortPc = "returned"
    /\ sortMode = "PRICE_DESC"
    /\ sortIn = <<SortRecord("A", PyFloat(500), PyInt(7)),
                  SortRecord("B", PyInt(5), PyS(<<"7">>)),
                  SortRecord("C", PyS(<<"9", ".", "9", "9">>), PyInt(0))>>
    /\ sortOut = <<sortIn[3], sortIn[1], sortIn[2]>>

\* C13: _apply_sort never raises, and a record whose price or sold_count is
\* missing, null or no number is ordered as if the value were 0.
C13_SortNeverRaises ==
    /\ sortPc /= "raised"
    /\ (sortPc = "returned" /\ sortMode \in {"PRICE_ASC", "PRICE_DESC", "BEST_SELLERS"})
          => sortOut = StableSorted(sortIn,
                           [i \in 1..Len(sortIn) |->
                               IF SortKey(sortIn[i], sortMode).ok
                               THEN SortKey(sortIn[i], sortMode).val ELSE 0],
                           sortMode /= "PRICE_ASC")

\* C14: in offline mode no fetch is attempted on any path, also with start
\* URLs, and search returns exactly limit records, all of them mock records.
C14_OfflineNoFetchExactLimit ==
    cfg.offline_mode =>
        /\ spc /= "fetching"
        /\ attempt = 0
        /\ attemptLog = <<>>
        /\ items = <<>>
        /\ spc /= "call" =>
              /\ spc = "returned"
              /\ Len(out) = req.limit
              /\ \A i \in 1..Len(out) : out[i]["_source"] = PyS(<<"mock">>)

\* an offline search with start URLs returned limit mock records
C14_Witness ==
    /\ cfg.offline_mode
    /\ spc = "returned"
    /\ Len(req.start_urls) = MaxStartUrls
    /\ req.limit = MaxLimit
    /\ Len(out) = req.limit
    /\ attemptLog = <<>>
    /\ \A i \in 1..Len(out) : out[i]["_source"] = PyS(<<"mock">>)

(***************************************************************************)
(* _mock_products as generators: every call makes an instance with its own *)
(* random.Random(seed_basis); instances are consumed one record at a time, *)
(* interleaved with each other and with the draws _fetch_url makes from    *)
(* the global random state.                                                *)
(***************************************************************************)
Instances == {"first", "second"}

GenArgsMenu ==
    [keyword : {None, <<"shoes">>},
     is_trending : BOOLEAN,
     region : {None, <<"v", "n">>},
     limit : 1..MaxLimit]

GenInit ==
    /\ genArgs \in [Instances -> GenArgsMenu]
    /\ genPos = [g \in Instances |-> [i |-> 0, drawn |-> 0]]
    /\ genOut = [g \in Instances |-> <<>>]
    /\ globalDraws = 0
    /\ JsonIdle
    /\ ListIdle
    /\ ClassIdle
    /\ RunIdle
    /\ MapIdle
    /\ SearchIdle
    /\ SortIdle
    /\ ValidIdle

\* how many numbers the stream that serves instance g has given: a
\* stream shared by all callers
RndPositionGlobal(g) == globalDraws

\* how many numbers the stream that serves instance g has given: the
\* instance's own rnd
RndPosition(g) == genPos[g].drawn

\* next(gen): the generator runs one loop iteration and yields a record
GenYield(g) ==
    /\ genPos[g].i < genArgs[g].limit
    /\ genOut' = [genOut EXCEPT ![g] =
                     Append(@, MockProductAt(genArgs[g].keyword, genArgs[g].is_trending,
                                             genArgs[g].region, genPos[g].i + 1,
                                             RndPosition(g)))]
    /\ genPos' = [genPos EXCEPT ![g] = [i |-> @.i + 1,
                                        drawn |-> @.drawn + DrawsPerProduct]]
    /\ UNCHANGED <<genArgs, globalDraws, genRest>>

\* _mock_products is called again with the same arguments: a new instance
\* takes the place of the old one
GenCallAgain(g) ==
    /\ genPos[g].i > 0
    /\ genPos' = [genPos EXCEPT ![g] = [i |-> 0, drawn |-> 0]]
    /\ genOut' = [genOut EXCEPT ![g] = <<>>]
    /\ UNCHANGED <<genArgs, globalDraws, genRest>>

\* _fetch_url draws from the global random state
GlobalDraw ==
    /\ globalDraws < MaxGlobalDraws
    /\ globalDraws' = globalDraws + 1
    /\ UNCHANGED <<genArgs, genPos, genOut, genRest>>

GenNext ==
    \/ \E g \in Instances : GenYield(g)
    \/ \E g \in Instances : GenCallAgain(g)
    \/ GlobalDraw

SpecGen == GenInit /\ [][GenNext]_vars

\* C15: what an instance has yielded so far is the beginning of the one
\* sequence its arguments determine, whatever was called or drawn before,
\* so two instances with identical arguments agree record by record.
C15_MockDeterministic ==
    /\ \A g \in Instances :
          genOut[g] = Take(_mock_products(genArgs[g].keyword, genArgs[g].is_trending,
                                          genArgs[g].region, genArgs[g].limit),
                           genPos[g].i)
    /\ \A g, h \in Instances :
          genArgs[g] = genArgs[h] =>
              \A i \in 1..Len(genOut[g]) : i <= Len(genOut[h]) => genOut[g][i] = genOut[h][i]

\* two instances with identical arguments, both consumed to the end, the
\* global random state used in between
C15_Witness ==
    /\ genArgs["first"] = genArgs["second"]
    /\ genArgs["first"].limit = 2
    /\ Len(genOut["first"]) = 2
    /\ genOut["first"] = genOut["second"]
    /\ genOut["first"][1] /= genOut["first"][2]
    /\ globalDraws > 0

(***************************************************************************)
(* validate_input.  InputModel.model_validate validates the fields in the  *)
(* order of their definition: keyword, isTrending, region, sortType,       *)
(* limit, startUrls.  A field validator runs only for a field the payload  *)
(* gives (a default is not validated), and info.data holds the fields      *)
(* validated before it.  sortType and limit are left at their defaults.    *)
(***************************************************************************)
PyBool(b) == [t |-> "bool", n |-> IF b THEN 1 ELSE 0, s |-> <<>>]

IsAlpha(c) ==
    \E i \in 1..Len(AsciiLower) : c = AsciiLower[i] \/ c = AsciiUpper[i]

\* the payloads: every field given or left out
Payloads ==
    LET menu == [k \in {"keyword", "isTrending", "region", "startUrls"} |->
                    CASE k = "keyword" ->
                            {PyNone, PyS(<<>>), PyS(<<"s", "h", "o", "e">>),
                             PyS(<<" ", "s", " ">>)}
                      [] k = "isTrending" -> {PyBool(TRUE), PyBool(FALSE)}
                      [] k = "region" ->
                            {PyNone, PyS(<<>>), PyS(<<"v", "n">>), PyS(<<"V", "N">>),
                             PyS(<<"v", "1">>), PyS(<<"u", "s", "a">>)}
                      [] OTHER -> {PyNone, PyList(<<>>), PyList(<<<<"h", "/", "a">>>>)}]
    IN  UNION {{f \in [K -> UNION {menu[k] : k \in K}] : \A k \in K : f[k] \in menu[k]} :
               K \in SUBSET {"keyword", "isTrending", "region", "startUrls"}}

ValidateInit ==
    /\ payload \in Payloads
    /\ vpc = "keyword"
    /\ vresult = [data |-> [k \in {} |-> PyNone], errors |-> {}]
    /\ JsonIdle
    /\ ListIdle
    /\ ClassIdle
    /\ RunIdle
    /\ MapIdle
    /\ SearchIdle
    /\ SortIdle
    /\ GenIdle

\* the validated data with one more field
WithField(data, key, v) ==
    [k \in DOMAIN data \cup {key} |-> IF k = key THEN v ELSE data[k]]

\* validate_keyword(v, info): [ok, v]
validate_keyword(v, data) ==
    LET start_urls == RGet(data, "startUrls")
        is_trending == IF "isTrending" \in DOMAIN data THEN data["isTrending"]
                       ELSE PyBool(FALSE)
    IN  IF ~RTruthy(start_urls) /\ ~RTruthy(is_trending) /\ ~RTruthy(v)
        THEN [ok |-> FALSE, v |-> v]
        ELSE [ok |-> TRUE, v |-> IF v.t = "str" THEN PyS(Strip(v.s)) ELSE v]

\* validate_region(v): [ok, v]
validate_region(v) ==
    IF v.t = "none" THEN [ok |-> TRUE, v |-> v]
    ELSE IF v.t /= "str" \/ Len(v.s) /= 2 \/ ~(\A i \in 1..Len(v.s) : IsAlpha(v.s[i]))
         THEN [ok |-> FALSE, v |-> v]
    ELSE [ok |-> TRUE, v |-> PyS(Upper(v.s))]

\* one field is validated: the default when the payload leaves it out,
\* else the validator's result r = [ok, v]
FieldStep(key, default, r, next) ==
    /\ vpc = key
    /\ vresult' =
          IF key \notin DOMAIN payload
          THEN [vresult EXCEPT !.data = WithField(@, key, default)]
          ELSE IF r.ok THEN [vresult EXCEPT !.data = WithField(@, key, r.v)]
          ELSE [vresult EXCEPT !.errors = @ \cup {key}]
    /\ vpc' = next
    /\ UNCHANGED <<payload, validRest>>

ValidateKeyword ==
    FieldStep("keyword", PyNone,
              validate_keyword(RGet(payload, "keyword"), vresult.data), "isTrending")

ValidateTrending ==
    FieldStep("isTrending", PyBool(FALSE),
              [ok |-> TRUE, v |-> RGet(payload, "isTrending")], "region")

ValidateRegion ==
    FieldStep("region", PyNone, validate_region(RGet(payload, "region")), "startUrls")

ValidateStartUrls ==
    FieldStep("startUrls", PyNone,
              [ok |-> TRUE, v |-> RGet(payload, "startUrls")], "finish")

\* model_validate returns the model
ValidateAccept ==
    /\ vpc = "finish"
    /\ vresult.errors = {}
    /\ vpc' = "accepted"
    /\ UNCHANGED <<payload, vresult, validRest>>

\* model_validate raises; validate_input raises in turn
ValidateReject ==
    /\ vpc = "finish"
    /\ vresult.errors /= {}
    /\ vpc' = "rejected"
    /\ UNCHANGED <<payload, vresult, validRest>>

ValidateNext ==
    \/ ValidateKeyword
    \/ ValidateTrending
    \/ ValidateRegion
    \/ ValidateStartUrls
    \/ ValidateAccept
    \/ ValidateReject

SpecValidate == ValidateInit /\ [][ValidateNext]_vars

\* the request gives no keyword, or an empty one
NoKeyword == ~RTruthy(RGet(payload, "keyword"))
\* the request's region is given and is not two letters
BadRegion ==
    LET v == RGet(payload, "region")
    IN  v.t /= "none" /\ (Len(v.s) /= 2 \/ \E i \in 1..Len(v.s) : ~IsAlpha(v.s[i]))

\* C16: a request is rejected exactly when it has no keyword while
\* startUrls is absent or empty and isTrending is false, or when its region
\* is not two letters; an accepted request has its region in upper case.
C16_RejectsExactlyInvalidShapes ==
    /\ vpc = "rejected" =>
          \/ BadRegion
          \/ (NoKeyword /\ ~RTruthy(RGet(payload, "startUrls"))
                        /\ ~RTruthy(RGet(payload, "isTrending")))
    /\ vpc = "accepted" =>
          /\ ~BadRegion
          /\ NoKeyword => (RTruthy(RGet(payload, "startUrls"))
                              \/ RTruthy(RGet(payload, "isTrending")))
          /\ vresult.data["region"].t = "str"
                => vresult.data["region"].s = Upper(payload["region"].s)

\* the product-like dict nodes of a JSON value, in walk order
RECURSIVE ProductLikeNodes(_)
RECURSIVE ProductLikeNodesOf(_, _)
ProductLikeNodes(node) ==
    IF node.t = "obj"
    THEN ProductLikeNodesOf(node.c,
             IF _looks_like_product_dict(node) THEN <<node>> ELSE <<>>)
    ELSE IF node.t = "list" THEN ProductLikeNodesOf(node.c, <<>>)
    ELSE <<>>
ProductLikeNodesOf(children, acc) ==
    IF children = <<>> THEN acc
    ELSE ProductLikeNodesOf(Tail(children), acc \o ProductLikeNodes(Head(children)))

\* the document has one script, which qualifies and holds a JSON object
\* with exactly one product-like node, the node having a title and a price
\* and no url
OneProductNodeDoc ==
    /\ Len(doc.scripts) = 1
    /\ Extractable(doc.scripts[1])
    /\ LET ns == ProductLikeNodes(ExtractJson(doc.scripts[1]).val)
       IN  /\ Len(ns) = 1
           /\ Get(ns[1], "title").t = "str" /\ Get(ns[1], "title").s /= <<>>
           /\ Get(ns[1], "price").t = "str" /\ Get(ns[1], "price").s /= <<>>
           /\ ~HasKey(ns[1], "url")

\* C17: such a listing page yields exactly one record, whose product_link is
\* the page URL and whose sale_price is the node's price text.
C17_OneNodeOneRecord ==
    OneProductNodeDoc =>
        /\ lpc /= "raised"
        /\ lpc = "done" =>
              /\ Len(result) = 1
              /\ result[1].product_link = doc.url
              /\ result[1].sale_price =
                    Get(ProductLikeNodes(ExtractJson(doc.scripts[1]).val)[1], "price").s

\* the scenario of the specification: the script
\* {"product": [{"title": ..., "price": "$9"}]} gives one record with the
\* page URL and the price text
EndToEndScenario ==
    (doc.scripts = <<ScriptEndToEnd>> /\ lpc = "done") =>
        /\ Len(result) = 1
        /\ result[1].product_link = doc.url
        /\ result[1].sale_price = <<"$", "9">>

\* the number of "{" in the text
OpenCount(text) == Cardinality({i \in 1..Len(text) : text[i].t = "{"})

\* no span is parsed twice, the parse attempts are at most the "{" of the
\* text, and the outcome is the parsed object or the ValueError, never a null
ExtractBounded ==
    /\ \A i, j \in 1..Len(jtried) : i /= j => jtried[i] /= jtried[j]
    /\ Len(jtried) <= OpenCount(jtext)
    /\ jpc \in {"loop", "returned", "raised"}
    /\ jpc = "returned" => jvalue /= <<>> /\ jvalue.t = "obj"
    /\ jpc /= "returned" => jvalue = <<>>

\* C18: _extract_json_from_script terminates on every text, parses each
\* candidate span at most once, at most once per "{" of the text, and ends
\* either with a parsed JSON value or with the ValueError, never with a null.
C18_ExtractTerminates ==
    /\ []ExtractBounded
    /\ <>(jpc \in {"returned", "raised"})
    /\ [][(jpc \in {"returned", "raised"}) => (jpc' = jpc)]_vars

\* a text on which the first span fails to parse and the second is returned
C18_Witness ==
    /\ jpc = "returned"
    /\ Len(jtried) = 2
    /\ jtried[1][1] < jtried[2][1]
    /\ jvalue.t = "obj"

\* C19: on every path through search the returned records are ordered by
\* the requested mode: non-decreasing price for PRICE_ASC, non-increasing
\* price for PRICE_DESC, non-increasing sold_count for BEST_SELLERS, on the
\* values of the returned records.
C19_EveryPathSorted ==
    spc = "returned" =>
        \A i, j \in 1..Len(out) :
            i < j =>
                /\ req.sort = "PRICE_ASC" => out[i]["price"].n <= out[j]["price"].n
                /\ req.sort = "PRICE_DESC" => out[i]["price"].n >= out[j]["price"].n
                /\ req.sort = "BEST_SELLERS"
                      => out[i]["sold_count"].n >= out[j]["sold_count"].n

(***************************************************************************)
(* The DOM card strategy on anchor cards (SpecListing).                    *)
(***************************************************************************)
\* the cards of the selector a[href*='/product/'] that hold a title or a
\* price
AnchorCards(d) ==
    LET as == SelectAnchors(d.elements) IN
    Filter(as, {as[i] : i \in {k \in 1..Len(as) : _product_from_card(as[k], d.url).some}})

\* the card strategy runs on the page: no script gave a product; there are
\* several anchor cards, with pairwise distinct stripped hrefs
SeveralAnchorCards ==
    /\ ~ScriptProducts(doc, 1, <<>>).raised
    /\ ScriptProducts(doc, 1, <<>>).prods = <<>>
    /\ Len(AnchorCards(doc)) >= 2
    /\ \A i, j \in 1..Len(AnchorCards(doc)) :
          i /= j => Strip(AnchorCards(doc)[i].href) /= Strip(AnchorCards(doc)[j].href)

\* C20: on such a page every anchor card yields a record whose product_link
\* is the anchor's own stripped href, so none is lost to de-duplication, and
\* no anchor card's record takes the page URL as its link.
C20_AnchorCardsKeepOwnHref ==
    (SeveralAnchorCards /\ lpc = "done") =>
        /\ \A i \in 1..Len(AnchorCards(doc)) :
              \E m \in 1..Len(result) :
                 result[m].product_link = Strip(AnchorCards(doc)[i].href)
        /\ Len(result) >= Len(AnchorCards(doc))
        /\ \A i \in 1..Len(AnchorCards(doc)) :
              _product_from_card(AnchorCards(doc)[i], doc.url).p.product_link
                  /= doc.url

====
